---- MODULE Spec2Model ----
(***************************************************************************)
(* Verification model of the SEO_Optimizer multi-page crawl-and-analyze    *)
(* pipeline: the page analysis orchestrator (SEOAnalysisOrchestrator), the *)
(* retry wrapper (ErrorHandler.handleAsync), the link normalizer           *)
(* (LinksAnalyzer) and the POST handler of analyze-unified.                *)
(*                                                                         *)
(* Numbers that the code keeps as IEEE doubles are kept here as exact      *)
(* integers: a weight is held in hundredths (0.15 -> 15) and a score with  *)
(* two decimals is held in hundredths as well.                             *)
(***************************************************************************)
EXTENDS Integers, Sequences, FiniteSets, TLC

(***************************************************************************)
(* Bounds of the model.                                                    *)
(***************************************************************************)
\* largest number of analyzers that throw in one page analysis
MaxThrowing == 1
\* distance between two analyzer scores that the score inputs enumerate
ScoreStep == 50
\* largest number of <loc> entries of the main page's sitemap
MaxSitemapUrls == 3
\* largest number of anchors of the main page
MaxLinks == 4

(***************************************************************************)
(* Generic helpers.                                                        *)
(***************************************************************************)
Min(a, b) == IF a < b THEN a ELSE b

Max(a, b) == IF a > b THEN a ELSE b

Range(s) == {s[i] : i \in DOMAIN s}

\* Array.prototype.slice(from, to) with 0-based, end-exclusive indices
Slice(s, from, to) == SubSeq(s, from + 1, Min(to, Len(s)))

RECURSIVE Flatten(_)
\* Array.prototype.flat / spread of a list of lists
Flatten(ss) == IF ss = <<>> THEN <<>> ELSE Head(ss) \o Flatten(Tail(ss))

\* Math.round of the non-negative rational num/den: floor(num/den + 1/2)
MathRound(num, den) == (2 * num + den) \div (2 * den)

(***************************************************************************)
(* Analyzer registry and outcomes.                                         *)
(***************************************************************************)
\* registration order of the constructor
AnalyzerOrder == <<"title", "description", "headings", "technical", "images",
                   "keywords", "performance", "links", "mobile", "security", "eat">>

Analyzers == Range(AnalyzerOrder)

\* a score that is not a finite number (NaN, Infinity, undefined)
NaN == 0 - 1000000

TypeError == "error"

\* the issue the orchestrator substitutes for an analyzer that threw
FailureIssue(name) ==
    [type |-> TypeError, priority |-> "high", category |-> "technical",
     message |-> <<"Error en analisis de", name>>]

\* an issue reported by an analyzer itself
Finding(name, type, k) ==
    [type |-> type, priority |-> IF type = "success" THEN "low" ELSE "medium",
     category |-> name, message |-> <<"finding", name, k>>]

\* the analyzers whose data object has an issues field of its own
\* (SecurityHeadersData and EATData have none)
DataCarriesIssues(name) == name \notin {"security", "eat"}

\* the data object of an analyzer that returned normally
AnalyzerData(name, issues, urls) ==
    [of |-> name, default |-> FALSE,
     issues |-> IF DataCarriesIssues(name) THEN issues ELSE <<>>,
     urls |-> urls]

\* the issues an analyzer reports for a score (external collaborator)
AnalyzerIssues(name, score) ==
    IF score = 100 THEN <<Finding(name, "success", 1)>>
    ELSE IF score >= 50 THEN <<Finding(name, "warning", 1), Finding(name, "success", 2)>>
    ELSE <<Finding(name, "error", 1), Finding(name, "warning", 2)>>

\* analyzer.analyze(context): the value it resolves to
AnalyzerReturn(name, score, urls) ==
    LET issues == AnalyzerIssues(name, score)
    IN [score |-> score, issues |-> issues, data |-> AnalyzerData(name, issues, urls)]

getDefaultAnalyzerData(name) ==
    [of |-> name, default |-> TRUE, issues |-> <<>>, urls |-> <<>>]

validateScore(score) ==
    IF score = NaN THEN 0 ELSE Max(0, Min(100, score))

isValidScore(score) == score # NaN

(***************************************************************************)
(* combineAnalysisResults: the weighted overall score.                     *)
(***************************************************************************)
\* the weight table in Object.entries order, weights in hundredths
weights == << <<"title", 15>>, <<"description", 11>>, <<"headings", 11>>,
              <<"technical", 11>>, <<"keywords", 11>>, <<"eat", 14>>,
              <<"mobile", 10>>, <<"images", 7>>, <<"security", 7>>,
              <<"performance", 4>>, <<"links", 2>> >>

\* whether the weight-table entry i adds to the sums
Counts(resultMap, i) ==
    /\ weights[i][1] \in DOMAIN resultMap
    /\ isValidScore(resultMap[weights[i][1]].score)

RECURSIVE WeightedSum(_, _)
\* overallScore after the first i entries of the weight table (in hundredths)
WeightedSum(resultMap, i) ==
    IF i = 0 THEN 0
    ELSE WeightedSum(resultMap, i - 1)
         + (IF Counts(resultMap, i) THEN resultMap[weights[i][1]].score * weights[i][2] ELSE 0)

RECURSIVE TotalWeight(_, _)
\* totalWeight after the first i entries of the weight table (in hundredths)
TotalWeight(resultMap, i) ==
    IF i = 0 THEN 0
    ELSE TotalWeight(resultMap, i - 1) + (IF Counts(resultMap, i) THEN weights[i][2] ELSE 0)

\* validAnalyzers after the whole weight table
ValidAnalyzers(resultMap) == Cardinality({i \in DOMAIN weights : Counts(resultMap, i)})

RECURSIVE SumScores(_, _)
SumScores(resultMap, names) ==
    IF names = {} THEN 0
    ELSE LET n == CHOOSE x \in names : TRUE
         IN resultMap[n].score + SumScores(resultMap, names \ {n})

\* the score with two decimals (in hundredths) before the final Math.round
ScoreTwoDecimals(resultMap) ==
    LET s == WeightedSum(resultMap, Len(weights))
        t == TotalWeight(resultMap, Len(weights))
        v == ValidAnalyzers(resultMap)
        valid == {n \in DOMAIN resultMap : isValidScore(resultMap[n].score)}
    IN IF t > 0 /\ v > 0 THEN MathRound(100 * s, t)
       ELSE IF v > 0
            THEN (IF valid # {} THEN MathRound(100 * SumScores(resultMap, valid), Cardinality(valid))
                  ELSE 0)
            ELSE 0

\* FocusedAnalysisResult.overallScore
OverallScore(resultMap) == MathRound(ScoreTwoDecimals(resultMap), 100)

\* resultMap.get(name)?.data || { ...literal default... }
FocusedData(resultMap, name) ==
    IF name \in DOMAIN resultMap THEN resultMap[name].data ELSE getDefaultAnalyzerData(name)

combineAnalysisResults(resultMap, url) ==
    [url |-> url,
     data |-> [a \in Analyzers |-> FocusedData(resultMap, a)],
     overallScore |-> OverallScore(resultMap),
     status |-> "success"]

(***************************************************************************)
(* convertToLegacyFormat.                                                  *)
(***************************************************************************)
\* the order in which the issue lists are spread into allIssues
LegacyIssueOrder == <<"title", "description", "headings", "images", "technical",
                      "keywords", "performance", "links", "mobile", "security", "eat">>

convertToLegacyFormat(focused) ==
    [url |-> focused.url,
     status |-> "success",
     errorCode |-> "none",
     errorType |-> "none",
     retryable |-> FALSE,
     httpStatus |-> 0,
     seoScore |-> focused.overallScore,
     data |-> focused.data,
     sitemapUrls |-> focused.data["technical"].urls,
     internalUrls |-> focused.data["links"].urls,
     issues |-> Flatten([i \in DOMAIN LegacyIssueOrder |-> focused.data[LegacyIssueOrder[i]].issues])]

(***************************************************************************)
(* Standardized errors (errors/index.ts).                                  *)
(***************************************************************************)
\* ERROR_DEFINITIONS: type and retryable of each code this model produces
ErrorDefinition(code) ==
    CASE code \in {"URL_REQUIRED", "URL_INVALID_FORMAT", "URL_PROTOCOL_MISSING", "URL_TOO_LONG"}
            -> [type |-> "validation", retryable |-> FALSE]
      [] code \in {"FETCH_FAILED", "HTTP_500", "HTTP_502", "HTTP_503"}
            -> [type |-> "network", retryable |-> TRUE]
      [] code \in {"HTTP_404", "HTTP_403"}
            -> [type |-> "network", retryable |-> FALSE]
      [] code = "CONNECTION_TIMEOUT" -> [type |-> "timeout", retryable |-> TRUE]
      [] code = "EMPTY_RESPONSE" -> [type |-> "analysis", retryable |-> TRUE]
      [] code = "PAGE_TOO_LARGE" -> [type |-> "analysis", retryable |-> FALSE]
      [] OTHER -> [type |-> "unknown", retryable |-> TRUE]

\* the value of an error variable that holds no error (null)
NoError == [code |-> "none", type |-> "none", retryable |-> FALSE, httpStatus |-> 0]

createSEOError(code, httpStatus) ==
    [code |-> code, type |-> ErrorDefinition(code).type,
     retryable |-> ErrorDefinition(code).retryable, httpStatus |-> httpStatus]

createHttpError(statusCode) ==
    createSEOError(
        CASE statusCode = 404 -> "HTTP_404"
          [] statusCode = 403 -> "HTTP_403"
          [] statusCode = 500 -> "HTTP_500"
          [] statusCode = 502 -> "HTTP_502"
          [] statusCode = 503 -> "HTTP_503"
          [] OTHER -> "FETCH_FAILED",
        statusCode)

\* the kinds of exception a fetch raises, by what their message contains:
\* "timeout" (AbortSignal.timeout), "network" ("fetch failed"), "other"
ExceptionKinds == {"timeout", "network", "other"}

createErrorFromException(kind) ==
    createSEOError(
        CASE kind = "timeout" -> "CONNECTION_TIMEOUT"
          [] kind = "network" -> "FETCH_FAILED"
          [] OTHER -> "INTERNAL_ERROR",
        0)

\* the classes of URL string validateUrlFormat tells apart
UrlFormats == {"ok", "empty", "tooLong", "noProtocol", "unparsable"}

\* validateUrlFormat: NoError when the URL is valid, else the error
validateUrlFormat(fmt) ==
    CASE fmt = "empty" -> createSEOError("URL_REQUIRED", 0)
      [] fmt = "tooLong" -> createSEOError("URL_TOO_LONG", 0)
      [] fmt = "noProtocol" -> createSEOError("URL_PROTOCOL_MISSING", 0)
      [] fmt = "unparsable" -> createSEOError("URL_INVALID_FORMAT", 0)
      [] OTHER -> NoError

\* createErrorResult with the error response spread after url: the url
\* field of the error response (undefined) wins
createErrorResultSpreadLast(url, error) ==
    [url |-> [scheme |-> "", host |-> "", upper |-> FALSE, port |-> 0, seg |-> "",
              slash |-> FALSE],
     status |-> "failed",
     errorCode |-> error.code,
     errorType |-> error.type,
     retryable |-> error.retryable,
     httpStatus |-> error.httpStatus,
     seoScore |-> 0,
     data |-> [a \in Analyzers |-> getDefaultAnalyzerData(a)],
     sitemapUrls |-> <<>>,
     internalUrls |-> <<>>,
     issues |-> <<>>]

\* createErrorResult(url, formatErrorResponse(error))
createErrorResult(url, error) ==
    [url |-> url,
     status |-> "failed",
     errorCode |-> error.code,
     errorType |-> error.type,
     retryable |-> error.retryable,
     httpStatus |-> error.httpStatus,
     seoScore |-> 0,
     data |-> [a \in Analyzers |-> getDefaultAnalyzerData(a)],
     sitemapUrls |-> <<>>,
     internalUrls |-> <<>>,
     issues |-> <<>>]

(***************************************************************************)
(* performAnalysis / analyzeUrl (seo-analysis-orchestrator.ts).            *)
(***************************************************************************)
\* SEO_THRESHOLDS.PAGE_SIZE_LIMIT, scaled: the body length is counted in
\* units of which the ceiling is this many
PAGE_SIZE_LIMIT == 2

\* a response body: its length and whether it is whitespace only
Bodies == {[len |-> l, blank |-> b] : l \in 0..(PAGE_SIZE_LIMIT + 1), b \in BOOLEAN}
              \ {[len |-> 0, blank |-> FALSE]}

StatusCodes == {200, 204, 403, 404, 500, 502, 503, 418}

\* what the fetch of a page settles to
FetchOutcomes ==
    {[kind |-> k, status |-> 0, body |-> [len |-> 0, blank |-> TRUE]] : k \in ExceptionKinds}
    \cup {[kind |-> "response", status |-> st, body |-> b] : st \in StatusCodes, b \in Bodies}

\* response.ok
ResponseOk(status) == status >= 200 /\ status <= 299

\* ResponseError without the html.length check
ResponseErrorNoSizeCheck(f) ==
    IF ~ResponseOk(f.status) THEN createHttpError(f.status)
    ELSE IF f.body.len = 0 \/ f.body.blank THEN createSEOError("EMPTY_RESPONSE", 0)
    ELSE NoError

\* the checks between the fetch and the analyzers: NoError or the error
ResponseError(f) ==
    IF ~ResponseOk(f.status) THEN createHttpError(f.status)
    ELSE IF f.body.len = 0 \/ f.body.blank THEN createSEOError("EMPTY_RESPONSE", 0)
    ELSE IF f.body.len > PAGE_SIZE_LIMIT THEN createSEOError("PAGE_TOO_LARGE", 0)
    ELSE NoError

\* AnalyzerOutcome with a catch block that returns no score
AnalyzerOutcomeNoScore(name, a) ==
    IF name \in a.throwing
    THEN [score |-> NaN, issues |-> <<FailureIssue(name)>>, data |-> getDefaultAnalyzerData(name)]
    ELSE LET r == AnalyzerReturn(name, a.scores[name],
                                 IF name = "technical" THEN a.sitemapUrls
                                 ELSE IF name = "links" THEN a.internalUrls ELSE <<>>)
         IN [r EXCEPT !.score = validateScore(r.score)]

\* what the analyzers of one page do: which throw, the raw score of each,
\* and the URL lists carried by the technical (sitemap) and links data
AnalyzerOutcome(name, a) ==
    IF name \in a.throwing
    THEN [score |-> 0, issues |-> <<FailureIssue(name)>>, data |-> getDefaultAnalyzerData(name)]
    ELSE LET r == AnalyzerReturn(name, a.scores[name],
                                 IF name = "technical" THEN a.sitemapUrls
                                 ELSE IF name = "links" THEN a.internalUrls ELSE <<>>)
         IN [r EXCEPT !.score = validateScore(r.score)]

\* Promise.all(analysisPromises) as the map combineAnalysisResults builds
AnalysisResults(registered, a) == [name \in registered |-> AnalyzerOutcome(name, a)]

\* the part of performAnalysis after the response checks
RunAnalyzers(url, registered, a) ==
    convertToLegacyFormat(combineAnalysisResults(AnalysisResults(registered, a), url))

\* the catch block of analyzeUrl
AnalyzeUrlCatch(url, kind) == createErrorResult(url, createErrorFromException(kind))

\* performAnalysis once the fetch has settled to f; analyzeUrl's try/catch
\* turns an exception of the fetch into a failed result
AfterFetch(url, registered, f, a) ==
    IF f.kind # "response" THEN AnalyzeUrlCatch(url, f.kind)
    ELSE IF ResponseError(f) # NoError THEN createErrorResult(url, ResponseError(f))
    ELSE RunAnalyzers(url, registered, a)

\* analyzeUrl as one function of everything its environment does.
\* kind "return": the promise fulfils with value; kind "throw": it rejects.
analyzeUrl(url, fmt, registered, f, a) ==
    IF validateUrlFormat(fmt) # NoError
    THEN [kind |-> "return", value |-> createErrorResult(url, validateUrlFormat(fmt))]
    ELSE [kind |-> "return", value |-> AfterFetch(url, registered, f, a)]

(***************************************************************************)
(* URLs.  A URL string is held as the record of its parts: the host name   *)
(* lower-cased with a flag for upper-case letters in it, the explicit port *)
(* (0 when the string has none) and a path of at most one segment with a   *)
(* flag for the trailing slash (segment "" with the slash is "/", without  *)
(* it the string ends after the host).  Two records are equal exactly when *)
(* their strings are.                                                      *)
(***************************************************************************)
Url(scheme, host, upper, port, seg, slash) ==
    [scheme |-> scheme, host |-> host, upper |-> upper, port |-> port,
     seg |-> seg, slash |-> slash]

\* the port the URL parser drops for a scheme
DefaultPort(scheme) == IF scheme = "http" THEN 80 ELSE 443

\* new URL(u).href: lower-case host, default port dropped, empty path "/"
Href(u) ==
    [u EXCEPT !.upper = FALSE,
              !.port = IF u.port = DefaultPort(u.scheme) THEN 0 ELSE u.port,
              !.slash = IF u.seg = "" THEN TRUE ELSE u.slash]

\* new URL(u).hostname
Hostname(u) == u.host

\* normalizeUrl of url-utils: the scheme prefix is removed and https:// put
\* in its place, then the string is parsed and serialized
normalizeUrl(u) == Href([u EXCEPT !.scheme = "https"])

\* the deduplication key of LinksAnalyzer: pathname.replace(/\/$/, '') || '/'
DeduplicationKey(n) == [n EXCEPT !.slash = (n.seg = "")]

\* URLValidator.normalizeUrl: the origin for the root path, else the URL
\* without its trailing slash
URLValidator_normalizeUrl(u) == [Href(u) EXCEPT !.slash = FALSE]

\* Set.prototype.add on a set kept in insertion order
SetAdd(seq, x) == IF x \in Range(seq) THEN seq ELSE Append(seq, x)

\* an anchor's href: an absolute URL ("abs") or a path resolved against the
\* page ("rel")
AbsHref(u) == [kind |-> "abs", u |-> u]

RelHref(seg, slash) == [kind |-> "rel", u |-> Url("https", "", FALSE, 0, seg, slash)]

\* a network-path reference "//host/seg": no scheme, a host of its own
NetHref(host, seg, slash) == [kind |-> "net", u |-> Url("", host, FALSE, 0, seg, slash)]

\* new URL(href, url).href for a reference that does not start with "http":
\* a path keeps the scheme and the host of the page, a network-path
\* reference keeps the scheme only
Resolve(href, url) ==
    IF href.kind = "net"
    THEN Href([href.u EXCEPT !.scheme = url.scheme])
    ELSE Href([url EXCEPT !.seg = href.u.seg, !.slash = href.u.slash])

RECURSIVE CollectInternal(_, _, _)
\* internalUrlsSet after the first i anchors
CollectInternal(url, hrefs, i) ==
    IF i = 0 THEN <<>>
    ELSE LET prev == CollectInternal(url, hrefs, i - 1)
             h == hrefs[i]
         IN IF h.kind = "abs"
            THEN (IF Hostname(h.u) = Hostname(url) THEN SetAdd(prev, h.u) ELSE prev)
            ELSE SetAdd(prev, Resolve(h, url))

RECURSIVE Deduplicate(_, _, _)
\* the entries <<key, value>> of deduplicatedUrlsMap after the first i URLs
Deduplicate(url, internal, i) ==
    IF i = 0 THEN <<>>
    ELSE LET prev == Deduplicate(url, internal, i - 1)
             n == normalizeUrl(internal[i])
             key == DeduplicationKey(n)
         IN IF n = normalizeUrl(url) THEN prev
            ELSE IF \E j \in DOMAIN prev : prev[j][1] = key THEN prev
            ELSE Append(prev, <<key, n>>)

\* LinksAnalyzer.analyze on the main page: the internalUrls list
LinksAnalyzer(url, hrefs, cap) ==
    LET internal == CollectInternal(url, hrefs, Len(hrefs))
        entries == Deduplicate(url, internal, Len(internal))
    IN Slice([i \in DOMAIN entries |-> entries[i][2]], 0, cap)

(***************************************************************************)
(* The frontier of the POST handler (analyze-unified.ts, step 2).          *)
(***************************************************************************)
RECURSIVE AddSitemapUrls(_, _, _)
\* urlsToAnalyzeSet after the first i sitemap entries
AddSitemapUrls(url, sitemapUrls, i) ==
    IF i = 0 THEN <<>>
    ELSE LET prev == AddSitemapUrls(url, sitemapUrls, i - 1)
         IN IF sitemapUrls[i] # url THEN SetAdd(prev, sitemapUrls[i]) ELSE prev

RECURSIVE AddDiscovered(_, _, _)
\* urlsToAnalyzeSet after the first i discovered links
AddDiscovered(set, internalUrls, i) ==
    IF i = 0 THEN set
    ELSE SetAdd(AddDiscovered(set, internalUrls, i - 1), internalUrls[i])

\* BuildFrontier without the slice to the cap
BuildFrontierUncapped(url, sitemapUrls, internalUrls, cap) ==
    AddDiscovered(AddSitemapUrls(url, sitemapUrls, Len(sitemapUrls)),
                  internalUrls, Len(internalUrls))

\* urlsToAnalyze
BuildFrontier(url, sitemapUrls, internalUrls, cap) ==
    Slice(AddDiscovered(AddSitemapUrls(url, sitemapUrls, Len(sitemapUrls)),
                        internalUrls, Len(internalUrls)),
          0, cap)

(***************************************************************************)
(* ErrorHandler.handleAsync (enhanced-error-handler.ts).                   *)
(***************************************************************************)
\* isRetryable(detectErrorType(error)) by the kind of the exception
isRetryable(kind) == kind \in {"timeout", "network", "ratelimit"}

\* isRecoverable(detectErrorType(error)): an Error whose message names a
\* missing permission is detected as PERMISSION
isRecoverable(kind) == kind # "permission"

\* one turn of a retry loop that does not look at retryable
handleAsyncAlwaysRetry(r, attempt, retries) ==
    IF r.kind = "return" THEN [state |-> "fulfilled", value |-> r.value]
    ELSE IF attempt = retries THEN [state |-> "rejected", value |-> r.error]
    ELSE [state |-> "retry", value |-> r.error]

\* one turn of the retry loop: r is what operation() settled to in the
\* 0-based attempt; "retry" stands for the delay and the next turn
handleAsync(r, attempt, retries) ==
    IF r.kind = "return" THEN [state |-> "fulfilled", value |-> r.value]
    ELSE IF ~isRetryable(r.error) \/ attempt = retries THEN [state |-> "rejected", value |-> r.error]
    ELSE [state |-> "retry", value |-> r.error]

(***************************************************************************)
(* The POST handler of analyze-unified: batches, results, summary.         *)
(***************************************************************************)
BATCH_SIZE == 5

MAX_INTERNAL_URLS == 99

\* retries of the main page and of an internal page
MainRetries == 2

PageRetries == 1

RECURSIVE MakeBatchesOverlapping(_, _)
\* MakeBatches with slice(i, i + BATCH_SIZE + 1)
MakeBatchesOverlapping(urls, i) ==
    IF i >= Len(urls) THEN <<>>
    ELSE <<Slice(urls, i, i + BATCH_SIZE + 1)>> \o MakeBatchesOverlapping(urls, i + BATCH_SIZE)

RECURSIVE MakeBatches(_, _)
\* for (i = 0; i < urls.length; i += BATCH_SIZE) batches.push(urls.slice(i, i + BATCH_SIZE))
MakeBatches(urls, i) ==
    IF i >= Len(urls) THEN <<>>
    ELSE <<Slice(urls, i, i + BATCH_SIZE)>> \o MakeBatches(urls, i + BATCH_SIZE)

\* the object that stands for a rejected page promise
RejectedResult(url) ==
    [url |-> url, status |-> "failed", errorCode |-> "none", errorType |-> "analysis",
     retryable |-> FALSE, httpStatus |-> 0, seoScore |-> 0,
     data |-> [a \in Analyzers |-> getDefaultAnalyzerData(a)],
     sitemapUrls |-> <<>>, internalUrls |-> <<>>, issues |-> <<>>]

\* BatchResults that keeps the successful pages only
BatchResultsSuccessOnly(batch, st, val) ==
    SelectSeq([j \in DOMAIN batch |->
                  IF st[j] = "fulfilled" THEN val[j] ELSE RejectedResult(batch[j])],
              LAMBDA r : r.status = "success")

\* Promise.allSettled(...).then(results => results.map(...)) for one batch
BatchResults(batch, st, val) ==
    [j \in DOMAIN batch |->
        IF st[j] = "fulfilled" THEN val[j] ELSE RejectedResult(batch[j])]

\* Promise.race in the place of Promise.allSettled: one promise is settled
AnySettled(st) == \E j \in DOMAIN st : st[j] \in {"fulfilled", "rejected"}

\* Promise.allSettled has resolved: every promise of the batch is settled
AllSettled(st) == \A j \in DOMAIN st : st[j] \in {"fulfilled", "rejected"}

RECURSIVE SumSeoScore(_)
SumSeoScore(rs) == IF rs = <<>> THEN 0 ELSE Head(rs).seoScore + SumSeoScore(Tail(rs))

SelectStatus(rs, status) == SelectSeq(rs, LAMBDA r : r.status = status)

CountIssues(rs, type) ==
    Len(SelectSeq(Flatten([i \in DOMAIN rs |-> rs[i].issues]), LAMBDA x : x.type = type))

\* Summary with the average taken over every page
SummaryOverAllPages(allResults) ==
    LET ok == SelectStatus(allResults, "success")
    IN [totalPages |-> Len(allResults),
        successfulPages |-> Len(ok),
        failedPages |-> Len(allResults) - Len(ok),
        avgSeoScore |-> IF Len(ok) > 0 THEN MathRound(SumSeoScore(allResults), Len(allResults))
                        ELSE 0,
        criticalIssues |-> CountIssues(ok, "error"),
        warningIssues |-> CountIssues(ok, "warning"),
        successIssues |-> CountIssues(ok, "success")]

\* step 3 of the handler: the AnalysisSummary
Summary(allResults) ==
    LET ok == SelectStatus(allResults, "success")
    IN [totalPages |-> Len(allResults),
        successfulPages |-> Len(ok),
        failedPages |-> Len(allResults) - Len(ok),
        avgSeoScore |-> IF Len(ok) > 0 THEN MathRound(SumSeoScore(ok), Len(ok)) ELSE 0,
        criticalIssues |-> CountIssues(ok, "error"),
        warningIssues |-> CountIssues(ok, "warning"),
        successIssues |-> CountIssues(ok, "success")]

NoSummary ==
    [totalPages |-> 0, successfulPages |-> 0, failedPages |-> 0, avgSeoScore |-> 0,
     criticalIssues |-> 0, warningIssues |-> 0, successIssues |-> 0]

\* MainFailureStatus without the switch on the error type
MainFailureStatusDefault(errorType) == 500

\* the HTTP status of the response for a failed main page
MainFailureStatus(errorType) ==
    CASE errorType = "timeout" -> 408
      [] errorType = "network" -> 502
      [] errorType \in {"url_format", "validation"} -> 400
      [] OTHER -> 500

\* a Response: what it carries and whether the security-headers layer
\* (applySecurityHeaders / handleSecurityError) produced it
Response(kind, status, secured, pages, summary) ==
    [kind |-> kind, status |-> status, secured |-> secured, pages |-> pages,
     summary |-> summary]

NoResponse == Response("none", 0, FALSE, <<>>, NoSummary)

ReportResponse(allResults) == Response("report", 200, TRUE, allResults, Summary(allResults))

(***************************************************************************)
(* State.                                                                  *)
(***************************************************************************)
VARIABLES
    \* one call of SEOAnalysisOrchestrator.analyzeUrl
    pgPc,        \* "off", "called", "fetching", "analyzing", "done"
    pgFmt,       \* the format class of the URL it is called with
    pgFetch,     \* what the fetch settled to
    pgAn,        \* what the analyzers did
    pgInvoked,   \* the analyzers whose analyze() has been invoked
    pgResult,    \* the CompleteAnalysisResult it resolved to
    \* one request to the POST handler
    phase,          \* "off", "received", "main", "batching", "responded"
    url,            \* the normalized root URL
    mainAttempt,    \* the 0-based attempt of the main page's handleAsync
    mainFirst,      \* what the first fetch of the main page settled to
    mainPageResult,
    urlsToAnalyze,  \* the frontier
    batches,
    cur,            \* the number of the batch being awaited (0: none)
    pst,            \* pst[b][j]: "idle", "running", "fulfilled", "rejected"
    pval,           \* pval[b][j]: the value a fulfilled page promise carries
    pcalls,         \* pcalls[b][j]: how often analyzePage was called for it
    pfirst,         \* pfirst[b][j]: what its first fetch settled to
    allResults,
    response,
    \* one call of combineAnalysisResults
    scPc,        \* "off", "input", "combined"
    scScores,    \* the score each analyzer returned
    scOverall,   \* the overallScore of the result
    \* one construction of the frontier from a main page
    frPc,        \* "off", "page", "linked", "built"
    frSitemap,   \* the <loc> strings of the sitemap
    frHrefs,     \* the href attributes of the anchors of the main page
    frInternal,  \* links.internalUrls of the main page result
    frFrontier,  \* urlsToAnalyze
    frCap,       \* CONFIG.MAX_INTERNAL_URLS as the environment sets it
    \* the deduplication keys of two URLs
    nzPc,        \* "off", "input", "keyed"
    nzU1,
    nzU2,
    nzK1,        \* the deduplication key of nzU1
    nzK2,        \* the deduplication key of nzU2
    \* one call of analyzeSitemap from the technical analyzer
    smPc,        \* "off", "running", "done"
    smSite,      \* the document the site serves under each sitemap path
    smRobots,    \* the Sitemap path robots.txt names ("" when it names none)
    smStack,     \* the frames of the nested analyzeSitemap calls, innermost last
    smResult,    \* the SitemapAnalysis the outermost call resolved to
    smExpanded,  \* how often each sitemap document has been fetched and expanded
    smFetched,   \* the candidates the outermost call has fetched, in order
    \* step 3 of the POST handler on a list of page results
    suPc,        \* "off", "collected", "responded"
    suResults,   \* allResults
    suResponse,  \* the response built from it
    \* one orchestrator whose registry is changed before a page is analysed
    rgPc,        \* "off", "ready", "combined"
    rgAnalyzers, \* the names of this.analyzers
    rgScores,    \* the score the analyzer of each name returns
    rgOverall,   \* overallScore of the combined result
    \* one call of ErrorHandler.handleAsync on an operation
    haPc,        \* "off", "running", "fulfilled", "fallback", "rejected"
    haRetries,   \* options.retries
    haFallback,  \* whether options.fallback is given
    haAttempt,   \* the loop variable attempt
    haCalls,     \* how often operation() has been invoked
    haErrors,    \* the kinds of the errors the invocations threw, in order
    \* one RateLimiter and the clock
    rlPc,        \* "off", "on"
    rlNow,       \* Date.now()
    rlStore,     \* this.store: the entry of each key
    rlAllowed,   \* the timestamps of the calls of each key that were allowed
    rlDeadline,  \* the times the denials since the last allowed call of each key named
    rlLast,      \* the last call of isAllowed and what it returned
    \* the AnalyzerFactory and the callers of getAnalyzer for one type
    faPc,        \* "off", "on"
    faCache,     \* this.cache.get(type): an instance, 0 when the type is not cached
    faLoading,   \* this.loadingPromises.get(type): a promise, 0 when there is none
    faPromises,  \* the state of the promise of each call of loadAnalyzer
    faLoads,     \* how often the loader of the type has been invoked
    faCallers    \* where each caller of getAnalyzer is and what it resolved to

pageVars == <<pgPc, pgFmt, pgFetch, pgAn, pgInvoked, pgResult>>

crawlVars == <<phase, url, mainAttempt, mainFirst, mainPageResult, urlsToAnalyze, batches,
               cur, pst, pval, pcalls, pfirst, allResults, response>>

scoreVars == <<scPc, scScores, scOverall>>

frontierVars == <<frPc, frSitemap, frHrefs, frInternal, frFrontier, frCap>>

normalizeVars == <<nzPc, nzU1, nzU2, nzK1, nzK2>>

sitemapVars == <<smPc, smSite, smRobots, smStack, smResult, smExpanded, smFetched>>

summaryVars == <<suPc, suResults, suResponse>>

registryVars == <<rgPc, rgAnalyzers, rgScores, rgOverall>>

retryVars == <<haPc, haRetries, haFallback, haAttempt, haCalls, haErrors>>

limiterVars == <<rlPc, rlNow, rlStore, rlAllowed, rlDeadline, rlLast>>

factoryVars == <<faPc, faCache, faLoading, faPromises, faLoads, faCallers>>

\* the variables of the specifications of single components
laterVars == <<registryVars, retryVars, limiterVars, factoryVars>>

vars == <<pageVars, crawlVars, scoreVars, frontierVars, normalizeVars, sitemapVars,
          summaryVars, laterVars>>

\* the URL analyzeUrl is called with in the page specification
PageUrl == Url("https", "x.com", FALSE, 0, "page", FALSE)

\* a result variable that holds no result yet
NoResult == [status |-> "none"]

NoFetch == [kind |-> "none", status |-> 0, body |-> [len |-> 0, blank |-> TRUE]]

\* the root URL as the request carries it
RootUrl == Url("https", "x.com", FALSE, 0, "", TRUE)

NoUrl == Url("", "", FALSE, 0, "", FALSE)

NoAnalysis == [throwing |-> {}, scores |-> [a \in Analyzers |-> 100],
               sitemapUrls |-> <<>>, internalUrls |-> <<>>]

PageOff ==
    /\ pgPc = "off" /\ pgFmt = "ok" /\ pgFetch = NoFetch /\ pgAn = NoAnalysis
    /\ pgInvoked = {} /\ pgResult = NoResult

\* an overall score that has not been computed
NoScore == 0 - 1

ScoreOff == scPc = "off" /\ scScores = [a \in Analyzers |-> 0] /\ scOverall = NoScore

FrontierOff ==
    /\ frPc = "off" /\ frSitemap = <<>> /\ frHrefs = <<>> /\ frInternal = <<>>
    /\ frFrontier = <<>> /\ frCap = MAX_INTERNAL_URLS

NormalizeOff ==
    /\ nzPc = "off" /\ nzU1 = NoUrl /\ nzU2 = NoUrl /\ nzK1 = NoUrl /\ nzK2 = NoUrl

\* the paths analyzeSitemap tries under the origin, in the order of the list
SitemapCandidates == <<"/sitemap.xml", "/sitemap.xml.gz", "/sitemap_index.xml",
                       "/sitemap_index.xml.gz", "/sitemap.txt">>

\* the paths of the child sitemaps a sitemap index of the site may list
ChildSitemaps == <<"/sitemap-1.xml", "/sitemap-2.xml", "/sitemap-3.xml">>

SitemapPaths == Range(SitemapCandidates) \cup Range(ChildSitemaps)

\* a document that is not served: the fetch throws (HTTP 404, timeout)
Missing == [kind |-> "missing", entries |-> <<>>]

\* a result variable of analyzeSitemap that holds no result yet
NoSitemapAnalysis ==
    [exists |-> FALSE, accessible |-> FALSE, isValidXml |-> FALSE, urls |-> <<>>,
     childSitemaps |-> <<>>, issues |-> <<>>]

SitemapOff ==
    /\ smPc = "off" /\ smSite = [p \in SitemapPaths |-> Missing] /\ smRobots = ""
    /\ smStack = <<>>
    /\ smResult = NoSitemapAnalysis /\ smExpanded = [p \in SitemapPaths |-> 0]
    /\ smFetched = <<>>

CrawlOff ==
    /\ phase = "off" /\ url = NoUrl /\ mainAttempt = 0 /\ mainFirst = "none"
    /\ mainPageResult = NoResult /\ urlsToAnalyze = <<>> /\ batches = <<>> /\ cur = 0
    /\ pst = <<>> /\ pval = <<>> /\ pcalls = <<>> /\ pfirst = <<>>
    /\ allResults = <<>> /\ response = NoResponse

SummaryOff == suPc = "off" /\ suResults = <<>> /\ suResponse = NoResponse

\* names under which further analyzers are registered with registerAnalyzer
CustomAnalyzers == {"schema", "social"}

RegistryOff ==
    /\ rgPc = "off" /\ rgAnalyzers = {}
    /\ rgScores = [n \in Analyzers \cup CustomAnalyzers |-> 0] /\ rgOverall = NoScore

RetryOff ==
    /\ haPc = "off" /\ haRetries = 0 /\ haFallback = FALSE /\ haAttempt = 0
    /\ haCalls = 0 /\ haErrors = <<>>

\* the keys of the requests (the client addresses)
Keys == {"a", "b"}

\* a key without an entry in the store
NoEntry == [present |-> FALSE, requests |-> <<>>, blocked |-> FALSE]

\* no call of isAllowed yet
NoCall == [key |-> "", at |-> 0, allowed |-> TRUE, retryAfter |-> 0]

LimiterOff ==
    /\ rlPc = "off" /\ rlNow = 0 /\ rlStore = [k \in Keys |-> NoEntry]
    /\ rlAllowed = [k \in Keys |-> <<>>] /\ rlDeadline = [k \in Keys |-> {}]
    /\ rlLast = NoCall

FactoryOff ==
    /\ faPc = "off" /\ faCache = 0 /\ faLoading = 0 /\ faPromises = <<>>
    /\ faLoads = 0 /\ faCallers = <<>>

LaterOff == RegistryOff /\ RetryOff /\ LimiterOff /\ FactoryOff

(***************************************************************************)
(* The page specification: one call of analyzeUrl, step by step.           *)
(***************************************************************************)
\* largest number of analyzers that return the low score 30 in the page
\* specification; the others return 100
MaxLow == 2

LowSets == {L \in SUBSET Analyzers : Cardinality(L) <= MaxLow}

ThrowSets == {T \in SUBSET Analyzers : Cardinality(T) <= MaxThrowing}

PageAnalyses ==
    {[throwing |-> T, scores |-> [a \in Analyzers |-> IF a \in L THEN 30 ELSE 100],
      sitemapUrls |-> <<>>, internalUrls |-> <<>>] :
        T \in ThrowSets, L \in LowSets}

PageInit ==
    /\ pgPc = "called"
    /\ pgFmt \in UrlFormats
    /\ pgFetch = NoFetch
    /\ pgAn = NoAnalysis
    /\ pgInvoked = {}
    /\ pgResult = NoResult
    /\ CrawlOff /\ ScoreOff /\ FrontierOff /\ NormalizeOff /\ SitemapOff /\ SummaryOff /\ LaterOff

\* analyzeUrl up to the fetch: an invalid URL returns a failed result
PgValidate ==
    /\ pgPc = "called"
    /\ IF validateUrlFormat(pgFmt) # NoError
       THEN /\ pgResult' = createErrorResult(PageUrl, validateUrlFormat(pgFmt))
            /\ pgPc' = "done"
       ELSE /\ pgPc' = "fetching"
            /\ UNCHANGED pgResult
    /\ UNCHANGED <<pgFmt, pgFetch, pgAn, pgInvoked>>
    /\ UNCHANGED <<crawlVars, scoreVars, frontierVars, normalizeVars, sitemapVars, summaryVars,
                   laterVars>>

\* the fetch settles; the response is checked; the analyzers are invoked
PgFetched ==
    /\ pgPc = "fetching"
    /\ \E f \in FetchOutcomes :
        /\ pgFetch' = f
        /\ IF f.kind # "response"
           THEN /\ pgResult' = AnalyzeUrlCatch(PageUrl, f.kind)
                /\ pgPc' = "done"
                /\ UNCHANGED pgInvoked
           ELSE IF ResponseError(f) # NoError
           THEN /\ pgResult' = createErrorResult(PageUrl, ResponseError(f))
                /\ pgPc' = "done"
                /\ UNCHANGED pgInvoked
           ELSE /\ pgPc' = "analyzing"
                /\ pgInvoked' = Analyzers
                /\ UNCHANGED pgResult
    /\ UNCHANGED <<pgFmt, pgAn>>
    /\ UNCHANGED <<crawlVars, scoreVars, frontierVars, normalizeVars, sitemapVars, summaryVars,
                   laterVars>>

\* every analyzer has settled: combine and convert
PgAnalyzed ==
    /\ pgPc = "analyzing"
    /\ \E a \in PageAnalyses :
        /\ pgAn' = a
        /\ pgResult' = RunAnalyzers(PageUrl, Analyzers, a)
    /\ pgPc' = "done"
    /\ UNCHANGED <<pgFmt, pgFetch, pgInvoked>>
    /\ UNCHANGED <<crawlVars, scoreVars, frontierVars, normalizeVars, sitemapVars, summaryVars,
                   laterVars>>

PageNext == PgValidate \/ PgFetched \/ PgAnalyzed

SpecPage == PageInit /\ [][PageNext]_vars

(***************************************************************************)
(* The crawl specification: one request to the POST handler.               *)
(***************************************************************************)
\* what validateRequest, the body parsing and the URL validations make of
\* a request
RequestKinds == {"securityRejected", "bodyThrows", "unsupportedContentType",
                 "invalidUrl", "badFormat", "ok"}

\* what the fetch of a crawled page settles to
CrawlFetches ==
    {f \in FetchOutcomes :
        \/ f.kind \in {"timeout", "network"}
        \/ f.kind = "response" /\ f.status = 200 /\ f.body = [len |-> 1, blank |-> FALSE]}

PathSegments == <<"a", "b", "c", "d", "e", "f", "g", "h", "i", "j", "k", "l">>

\* hosts the URL validator refuses by name
BLOCKED_HOSTS == {"localhost", "127.0.0.1", "0.0.0.0", "::1", "169.254.169.254",
                  "10.0.0.0/8", "172.16.0.0/12", "192.168.0.0/16"}

ALLOWED_PROTOCOLS == {"http", "https"}

NON_HTML_EXTENSIONS == {".pdf", ".jpg", ".png", ".zip", ".exe"}

\* the dotted-quad hosts of the model, with their first two octets
DottedQuads ==
    [h \in {"10.0.0.5", "172.16.0.5", "192.168.0.5", "127.0.0.2", "93.184.216.34"} |->
        CASE h = "10.0.0.5" -> <<10, 0>>
          [] h = "172.16.0.5" -> <<172, 16>>
          [] h = "192.168.0.5" -> <<192, 168>>
          [] h = "127.0.0.2" -> <<127, 0>>
          [] OTHER -> <<93, 184>>]

\* the path segments of the model that carry a file extension
ExtensionOf == [seg \in {"report.pdf", "logo.png"} |->
                   IF seg = "report.pdf" THEN ".pdf" ELSE ".png"]

isBlockedHost(hostname) == hostname \in BLOCKED_HOSTS

isPrivateIP(hostname) ==
    /\ hostname \in DOMAIN DottedQuads
    /\ LET parts == DottedQuads[hostname]
       IN \/ parts[1] = 10
          \/ parts[1] = 172 /\ parts[2] >= 16 /\ parts[2] <= 31
          \/ parts[1] = 192 /\ parts[2] = 168
          \/ parts[1] = 127

hasNonHtmlExtension(seg) ==
    seg \in DOMAIN ExtensionOf /\ ExtensionOf[seg] \in NON_HTML_EXTENSIONS

\* URLValidator.isValidUrl: http or https, no blocked host, no private
\* address, no file that is not HTML
isValidUrl(u) ==
    /\ u.scheme \in ALLOWED_PROTOCOLS
    /\ ~isBlockedHost(u.host)
    /\ ~isPrivateIP(u.host)
    /\ ~hasNonHtmlExtension(u.seg)

\* the first k <loc> entries of the site's sitemap; the first entry names a
\* host on the machine that runs the crawl
SitemapOf(k) ==
    [i \in 1..k |-> Url("https", IF i = 1 THEN "localhost" ELSE "x.com", FALSE, 0,
                        PathSegments[i], FALSE)]

\* the first j anchors of the main page; the first one is in the largest
\* sitemap as well
AnchorsOf(j) == [i \in 1..j |-> RelHref(PathSegments[MaxSitemapUrls - 1 + i], FALSE)]

\* what the analyzers of the main page do
MainAnalysis(u, k, j) ==
    [throwing |-> {}, scores |-> [a \in Analyzers |-> 100],
     sitemapUrls |-> SitemapOf(k),
     internalUrls |-> LinksAnalyzer(u, AnchorsOf(j), MAX_INTERNAL_URLS)]

\* the three per-batch tables with every page of batch b started
Started(table, b, v) == [table EXCEPT ![b] = [j \in DOMAIN table[b] |-> v]]

Table(bs, v) == [b \in DOMAIN bs |-> [j \in DOMAIN bs[b] |-> v]]

\* the number of page analyses in flight
InFlight ==
    Cardinality(UNION {{<<b, j>> : j \in {i \in DOMAIN pst[b] : pst[b][i] = "running"}} :
                          b \in DOMAIN pst})

Init ==
    /\ phase = "received" /\ url = NoUrl /\ mainAttempt = 0 /\ mainFirst = "none"
    /\ mainPageResult = NoResult /\ urlsToAnalyze = <<>> /\ batches = <<>> /\ cur = 0
    /\ pst = <<>> /\ pval = <<>> /\ pcalls = <<>> /\ pfirst = <<>>
    /\ allResults = <<>> /\ response = NoResponse
    /\ PageOff /\ ScoreOff /\ FrontierOff /\ NormalizeOff /\ SitemapOff /\ SummaryOff /\ LaterOff

\* the handler up to the first await of the main page analysis
Receive ==
    /\ phase = "received"
    /\ \E kind \in RequestKinds :
        CASE kind = "securityRejected" ->
                /\ response' = Response("error", 429, TRUE, <<>>, NoSummary)
                /\ phase' = "responded"
                /\ UNCHANGED <<url, mainAttempt>>
          [] kind = "bodyThrows" ->
                /\ response' = Response("error", 500, TRUE, <<>>, NoSummary)
                /\ phase' = "responded"
                /\ UNCHANGED <<url, mainAttempt>>
          [] kind = "unsupportedContentType" ->
                /\ response' = Response("error", 400, FALSE, <<>>, NoSummary)
                /\ phase' = "responded"
                /\ UNCHANGED <<url, mainAttempt>>
          [] kind \in {"invalidUrl", "badFormat"} ->
                /\ response' = Response("error", 400, TRUE, <<>>, NoSummary)
                /\ phase' = "responded"
                /\ UNCHANGED <<url, mainAttempt>>
          [] OTHER ->
                /\ url' = URLValidator_normalizeUrl(RootUrl)
                /\ mainAttempt' = 0
                /\ phase' = "main"
                /\ UNCHANGED response
    /\ UNCHANGED <<mainFirst, mainPageResult, urlsToAnalyze, batches, cur, pst, pval, pcalls,
                   pfirst, allResults>>
    /\ UNCHANGED <<pageVars, scoreVars, frontierVars, normalizeVars, sitemapVars, summaryVars,
                   laterVars>>

\* the main page's analyzePage settles; on a result the handler runs on to
\* its next await: the error response, the report, or the first batch
MainSettles ==
    /\ phase = "main"
    /\ \E f \in CrawlFetches, k \in 0..MaxSitemapUrls, j \in 0..MaxLinks :
        LET r == analyzeUrl(url, "ok", Analyzers, f, MainAnalysis(url, k, j))
            h == handleAsync(r, mainAttempt, MainRetries)
            res == IF h.state = "fulfilled" THEN h.value ELSE RejectedResult(url)
            frontier == BuildFrontier(url, res.sitemapUrls, res.internalUrls, MAX_INTERNAL_URLS)
            bs == MakeBatches(frontier, 0)
        IN /\ mainFirst' = IF mainAttempt = 0 THEN f.kind ELSE mainFirst
           /\ IF h.state = "retry"
              THEN /\ mainAttempt' = mainAttempt + 1
                   /\ UNCHANGED <<phase, mainPageResult, urlsToAnalyze, batches, cur, pst, pval,
                                  pcalls, pfirst, allResults, response>>
              ELSE /\ mainPageResult' = res
                   /\ UNCHANGED mainAttempt
                   /\ IF res.status = "failed"
                      THEN /\ response' = Response("error", MainFailureStatus(res.errorType),
                                                   FALSE, <<>>, NoSummary)
                           /\ phase' = "responded"
                           /\ UNCHANGED <<urlsToAnalyze, batches, cur, pst, pval, pcalls,
                                          pfirst, allResults>>
                      ELSE /\ urlsToAnalyze' = frontier
                           /\ batches' = bs
                           /\ allResults' = <<res>>
                           /\ pval' = Table(bs, NoResult)
                           /\ pfirst' = Table(bs, "none")
                           /\ IF Len(frontier) > 0
                              THEN /\ cur' = 1
                                   /\ pst' = Started(Table(bs, "idle"), 1, "running")
                                   /\ pcalls' = Started(Table(bs, 0), 1, 1)
                                   /\ phase' = "batching"
                                   /\ UNCHANGED response
                              ELSE /\ response' = ReportResponse(<<res>>)
                                   /\ phase' = "responded"
                                   /\ pst' = <<>>
                                   /\ pcalls' = <<>>
                                   /\ UNCHANGED cur
    /\ UNCHANGED url
    /\ UNCHANGED <<pageVars, scoreVars, frontierVars, normalizeVars, sitemapVars, summaryVars,
                   laterVars>>

\* analyzePage of page j of the batch being awaited settles
PageSettles(b, j) ==
    /\ phase = "batching"
    /\ b = cur
    /\ j \in DOMAIN pst[b]
    /\ pst[b][j] = "running"
    /\ \E f \in CrawlFetches :
        LET r == analyzeUrl(batches[b][j], "ok", Analyzers, f, NoAnalysis)
            h == handleAsync(r, pcalls[b][j] - 1, PageRetries)
        IN /\ pfirst' = IF pcalls[b][j] = 1 THEN [pfirst EXCEPT ![b][j] = f.kind] ELSE pfirst
           /\ IF h.state = "retry"
              THEN /\ pcalls' = [pcalls EXCEPT ![b][j] = @ + 1]
                   /\ UNCHANGED <<pst, pval>>
              ELSE /\ pst' = [pst EXCEPT ![b][j] = h.state]
                   /\ pval' = IF h.state = "fulfilled" THEN [pval EXCEPT ![b][j] = h.value]
                              ELSE pval
                   /\ UNCHANGED pcalls
    /\ UNCHANGED <<phase, url, mainAttempt, mainFirst, mainPageResult, urlsToAnalyze, batches,
                   cur, allResults, response>>
    /\ UNCHANGED <<pageVars, scoreVars, frontierVars, normalizeVars, sitemapVars, summaryVars,
                   laterVars>>

\* Promise.allSettled of the awaited batch resolves: its results are pushed
\* and the next batch is started, or the report is returned
BatchDone ==
    /\ phase = "batching"
    /\ AllSettled(pst[cur])
    /\ LET results == allResults \o BatchResults(batches[cur], pst[cur], pval[cur])
       IN /\ allResults' = results
          /\ IF cur < Len(batches)
             THEN /\ cur' = cur + 1
                  /\ pst' = Started(pst, cur + 1, "running")
                  /\ pcalls' = Started(pcalls, cur + 1, 1)
                  /\ UNCHANGED <<phase, response>>
             ELSE /\ response' = ReportResponse(results)
                  /\ phase' = "responded"
                  /\ UNCHANGED <<cur, pst, pcalls>>
    /\ UNCHANGED <<url, mainAttempt, mainFirst, mainPageResult, urlsToAnalyze, batches, pval,
                   pfirst>>
    /\ UNCHANGED <<pageVars, scoreVars, frontierVars, normalizeVars, sitemapVars, summaryVars,
                   laterVars>>

Next ==
    \/ Receive
    \/ MainSettles
    \/ \E b \in DOMAIN pst : \E j \in DOMAIN pst[b] : PageSettles(b, j)
    \/ BatchDone

Spec == Init /\ [][Next]_vars

(***************************************************************************)
(* The score specification: combineAnalysisResults on every assignment of  *)
(* scores to the registered analyzers.                                     *)
(***************************************************************************)
\* the scores the analyzers return: the multiples of ScoreStep in 0..100
ScoreSet == {x \in 0..100 : x % ScoreStep = 0}

\* the analysis in which every analyzer returns its score of scores
ScoredAnalysis(scores) ==
    [throwing |-> {}, scores |-> scores, sitemapUrls |-> <<>>, internalUrls |-> <<>>]

ScoreInit ==
    /\ scPc = "input"
    /\ scScores \in [Analyzers -> ScoreSet]
    /\ scOverall = NoScore
    /\ PageOff /\ CrawlOff /\ FrontierOff /\ NormalizeOff /\ SitemapOff /\ SummaryOff /\ LaterOff

\* combineAnalysisResults on the results of the analyzers
ScCombine ==
    /\ scPc = "input"
    /\ scOverall' = combineAnalysisResults(
                        AnalysisResults(Analyzers, ScoredAnalysis(scScores)), PageUrl).overallScore
    /\ scPc' = "combined"
    /\ UNCHANGED scScores
    /\ UNCHANGED <<pageVars, crawlVars, frontierVars, normalizeVars, sitemapVars, summaryVars,
                   laterVars>>

ScoreNext == ScCombine

SpecScore == ScoreInit /\ [][ScoreNext]_vars

(***************************************************************************)
(* The frontier specification: the links of a main page, its sitemap, and  *)
(* the frontier the POST handler builds from both.                         *)
(***************************************************************************)
\* largest number of <loc> entries of the sitemap
MaxListed == 2
\* largest number of anchors of the main page
MaxAnchors == 2
\* the small value of SEO_MAX_INTERNAL_URLS the environment may set
MaxCap == 2

\* getEnvNumber('SEO_MAX_INTERNAL_URLS', 99): the small value or the default
CapValues == {MaxCap, MAX_INTERNAL_URLS}

\* the <loc> strings a sitemap of the site lists: /a, /a/, /a with an
\* upper-case host, /a with the port :443, the root, /b
SitemapLocs ==
    {Url("https", "x.com", FALSE, 0, "a", FALSE), Url("https", "x.com", FALSE, 0, "a", TRUE),
     Url("https", "x.com", TRUE, 0, "a", FALSE), Url("https", "x.com", FALSE, 443, "a", FALSE),
     Url("https", "x.com", FALSE, 0, "", TRUE), Url("https", "x.com", FALSE, 0, "b", FALSE)}

\* the href attributes of the anchors: paths (one of them "/", the main
\* page), an absolute URL of the site, an absolute URL of another site and a
\* network-path reference to that site
AnchorHrefs ==
    {RelHref("a", FALSE), RelHref("a", TRUE), RelHref("", TRUE),
     AbsHref(Url("https", "x.com", TRUE, 0, "b", TRUE)),
     AbsHref(Url("https", "other.com", FALSE, 0, "c", FALSE)),
     NetHref("other.com", "c", FALSE)}

SeqsUpTo(S, n) == UNION {[1..k -> S] : k \in 0..n}

FrontierInit ==
    /\ frPc = "page"
    /\ frSitemap \in SeqsUpTo(SitemapLocs, MaxListed)
    /\ frHrefs \in SeqsUpTo(AnchorHrefs, MaxAnchors)
    /\ frInternal = <<>>
    /\ frFrontier = <<>>
    /\ frCap \in CapValues
    /\ PageOff /\ CrawlOff /\ ScoreOff /\ NormalizeOff /\ SitemapOff /\ SummaryOff /\ LaterOff

\* the root URL the handler analyzes as the main page
MainUrl == URLValidator_normalizeUrl(RootUrl)

\* LinksAnalyzer.analyze on the main page
FrAnalyzeLinks ==
    /\ frPc = "page"
    /\ frInternal' = LinksAnalyzer(MainUrl, frHrefs, frCap)
    /\ frPc' = "linked"
    /\ UNCHANGED <<frSitemap, frHrefs, frFrontier, frCap>>
    /\ UNCHANGED <<pageVars, crawlVars, scoreVars, normalizeVars, sitemapVars, summaryVars,
                   laterVars>>

\* step 2 of the POST handler
FrBuild ==
    /\ frPc = "linked"
    /\ frFrontier' = BuildFrontier(MainUrl, frSitemap, frInternal, frCap)
    /\ frPc' = "built"
    /\ UNCHANGED <<frSitemap, frHrefs, frInternal, frCap>>
    /\ UNCHANGED <<pageVars, crawlVars, scoreVars, normalizeVars, sitemapVars, summaryVars,
                   laterVars>>

FrontierNext == FrAnalyzeLinks \/ FrBuild

SpecFrontier == FrontierInit /\ [][FrontierNext]_vars

(***************************************************************************)
(* The normalize specification: the deduplication key LinksAnalyzer gives  *)
(* to two URLs.                                                            *)
(***************************************************************************)
\* the URL strings of one page of the site: both schemes, host in either
\* case, no port, either default port or another one, "/" or "/a" with and
\* without the trailing slash
NormalizeInputs ==
    {Url(sc, "x.com", up, pt, sg, sl) :
        sc \in {"http", "https"}, up \in BOOLEAN, pt \in {0, 80, 443, 8080},
        sg \in {"", "a"}, sl \in BOOLEAN}

NormalizeInit ==
    /\ nzPc = "input"
    /\ nzU1 \in NormalizeInputs
    /\ nzU2 \in NormalizeInputs
    /\ nzK1 = NoUrl
    /\ nzK2 = NoUrl
    /\ PageOff /\ CrawlOff /\ ScoreOff /\ FrontierOff /\ SitemapOff /\ SummaryOff /\ LaterOff

\* normalizeUrl and the deduplication key, as in the forEach of LinksAnalyzer
NzKey ==
    /\ nzPc = "input"
    /\ nzK1' = DeduplicationKey(normalizeUrl(nzU1))
    /\ nzK2' = DeduplicationKey(normalizeUrl(nzU2))
    /\ nzPc' = "keyed"
    /\ UNCHANGED <<nzU1, nzU2>>
    /\ UNCHANGED <<pageVars, crawlVars, scoreVars, frontierVars, sitemapVars, summaryVars,
                   laterVars>>

NormalizeNext == NzKey

SpecNormalize == NormalizeInit /\ [][NormalizeNext]_vars

(***************************************************************************)
(* The sitemap specification: analyzeSitemap on the origin of a site, with *)
(* its nested calls on the children of a sitemap index.                    *)
(***************************************************************************)
\* options.maxUrls, scaled (the default is 1000)
maxUrls == 2

\* options.maxChildSitemaps, scaled (the default is 50)
maxChildSitemaps == 3

\* deepest nesting of analyzeSitemap calls the model follows
MaxDepth == 3

\* the base URL the technical analyzer passes: new URL(url).origin
Origin == "origin"

\* line i of the document served under path: a URL, or other text
Line(path, i, isUrl) == [of |-> path, i |-> i, isUrl |-> isUrl]

\* a <urlset> document that lists n URLs
Urlset(path, n) == [kind |-> "urlset", entries |-> [i \in 1..n |-> Line(path, i, TRUE)]]

\* a <sitemapindex> document that lists the sitemaps under paths
SitemapIndex(paths) == [kind |-> "index", entries |-> paths]

\* a document without <urlset> and <sitemapindex>: its non-blank lines
TextDocument(lines) == [kind |-> "text", entries |-> lines]

\* an HTML page served in the place of a sitemap
HtmlPage(path) == TextDocument(<<Line(path, 1, FALSE), Line(path, 2, FALSE)>>)

\* what the site may serve under /sitemap.xml
RootDocuments ==
    {Missing, Urlset("/sitemap.xml", 1), Urlset("/sitemap.xml", maxUrls + 1),
     SitemapIndex(ChildSitemaps), SitemapIndex(<<ChildSitemaps[1]>>),
     SitemapIndex(<<"/sitemap.xml">>), TextDocument(<<>>), HtmlPage("/sitemap.xml")}

\* what the site may serve under the path of a child sitemap: nothing, a
\* urlset, or an index that lists /sitemap.xml again
ChildDocuments(path) ==
    {Missing, Urlset(path, 1), Urlset(path, maxUrls), SitemapIndex(<<"/sitemap.xml">>)}

\* the sites of the specification
Sites ==
    {[p \in SitemapPaths |->
        IF p = "/sitemap.xml" THEN r
        ELSE IF p = "/sitemap_index.xml" THEN x
        ELSE IF p = "/sitemap.txt" THEN t
        ELSE IF p \in Range(ChildSitemaps) THEN c[p]
        ELSE Missing] :
        r \in RootDocuments,
        x \in {Missing, SitemapIndex(SubSeq(ChildSitemaps, 1, 2))},
        t \in {Missing, TextDocument(<<Line("/sitemap.txt", 1, TRUE)>>)},
        c \in {f \in [Range(ChildSitemaps) -> UNION {ChildDocuments(q) : q \in Range(ChildSitemaps)}] :
                  \A q \in Range(ChildSitemaps) : f[q] \in ChildDocuments(q)}}

\* baseUrl.includes('sitemap') && it ends with .xml, .xml.gz or .txt
isSpecificSitemap(baseUrl) == baseUrl \in SitemapPaths

\* the sitemapUrls list with the hint of robots.txt tried last
CandidatesOfHintLast(baseUrl, robotsSitemap) ==
    IF isSpecificSitemap(baseUrl) THEN <<baseUrl>>
    ELSE SitemapCandidates \o (IF robotsSitemap = "" THEN <<>> ELSE <<robotsSitemap>>)

\* the sitemapUrls list of one call; robotsSitemap "" is undefined
CandidatesOf(baseUrl, robotsSitemap) ==
    IF isSpecificSitemap(baseUrl) THEN <<baseUrl>>
    ELSE (IF robotsSitemap = "" THEN <<>> ELSE <<robotsSitemap>>) \o SitemapCandidates

SitemapIssue(type, priority, message) ==
    [type |-> type, priority |-> priority, message |-> message]

\* the result after the loop over the candidates: no sitemap found
SitemapNotFound ==
    [exists |-> FALSE, accessible |-> FALSE, isValidXml |-> FALSE, urls |-> <<>>,
     childSitemaps |-> <<>>,
     issues |-> <<SitemapIssue("error", "high", "Sitemap no encontrado o no accesible")>>]

\* the return statement of the loop body for an XML document, given the
\* urls and issues gathered (the documents of the model carry the XML
\* declaration and list no low-value page)
XmlResult(urls, childSitemaps, issues) ==
    LET noUrls == IF urls = <<>> /\ childSitemaps = <<>>
                  THEN <<SitemapIssue("warning", "medium", "Sitemap no contiene URLs")>>
                  ELSE <<>>
        all == issues \o noUrls
    IN [exists |-> TRUE, accessible |-> TRUE, isValidXml |-> TRUE, urls |-> urls,
        childSitemaps |-> childSitemaps,
        issues |-> IF all = <<>>
                   THEN <<SitemapIssue("success", "low", "Sitemap configurado correctamente")>>
                   ELSE all]

\* the return statement of the loop body for a document that is not XML
TextResult(lines) ==
    LET urls == Slice(lines, 0, maxUrls)
    IN [exists |-> TRUE, accessible |-> TRUE, isValidXml |-> FALSE, urls |-> urls,
        childSitemaps |-> <<>>,
        issues |-> IF Len(urls) > 0
                   THEN <<SitemapIssue("warning", "low", "Sitemap en formato texto plano")>>
                   ELSE <<>>]

\* the frame of a call of analyzeSitemap that is about to fetch candidate ci
Frame(baseUrl, robotsSitemap) ==
    [base |-> baseUrl, cands |-> CandidatesOf(baseUrl, robotsSitemap), ci |-> 1,
     phase |-> "fetch", children |-> <<>>, ki |-> 1, urls |-> <<>>, issues |-> <<>>]

RECURSIVE Return(_, _)
\* the innermost call returns result: the outermost call resolves, or the
\* caller pushes the child's urls and issues and goes on to its next child
\* or, after the last child, returns itself
Return(stack, result) ==
    IF Len(stack) = 1 THEN [stack |-> <<>>, result |-> result, done |-> TRUE]
    ELSE LET caller == stack[Len(stack) - 1]
             merged == [caller EXCEPT !.urls = @ \o result.urls,
                                      !.issues = @ \o result.issues,
                                      !.ki = @ + 1]
             rest == Append(SubSeq(stack, 1, Len(stack) - 2), merged)
         IN IF merged.ki > Len(merged.children)
            THEN Return(rest, XmlResult(merged.urls, merged.children, merged.issues))
            ELSE [stack |-> rest, result |-> NoSitemapAnalysis, done |-> FALSE]

SitemapInit ==
    /\ smPc = "running"
    /\ smSite \in Sites
    /\ smRobots \in {"", "/sitemap-1.xml"}
    /\ smStack = <<Frame(Origin, smRobots)>>
    /\ smResult = NoSitemapAnalysis
    /\ smExpanded = [p \in SitemapPaths |-> 0]
    /\ smFetched = <<>>
    /\ PageOff /\ CrawlOff /\ ScoreOff /\ FrontierOff /\ NormalizeOff /\ SummaryOff /\ LaterOff

\* the fetch of the current candidate of the innermost call settles
SmFetch ==
    /\ smPc = "running"
    /\ LET top == smStack[Len(smStack)]
           path == top.cands[top.ci]
           doc == smSite[path]
           after == IF doc = Missing
                    THEN (IF top.ci = Len(top.cands)
                          THEN Return(smStack, SitemapNotFound)
                          ELSE [stack |-> [smStack EXCEPT ![Len(smStack)].ci = @ + 1],
                                result |-> NoSitemapAnalysis, done |-> FALSE])
                    ELSE IF doc.kind = "index" /\ doc.entries # <<>>
                    THEN [stack |-> [smStack EXCEPT ![Len(smStack)].phase = "children",
                                                    ![Len(smStack)].children =
                                                        Slice(doc.entries, 0, maxChildSitemaps)],
                          result |-> NoSitemapAnalysis, done |-> FALSE]
                    ELSE IF doc.kind = "text" THEN Return(smStack, TextResult(doc.entries))
                    ELSE Return(smStack, XmlResult(IF doc.kind = "urlset"
                                                   THEN Slice(doc.entries, 0, maxUrls)
                                                   ELSE <<>>, <<>>, <<>>))
       IN /\ top.phase = "fetch"
          /\ smStack' = after.stack
          /\ smResult' = after.result
          /\ smPc' = IF after.done THEN "done" ELSE "running"
          /\ smExpanded' = IF doc = Missing THEN smExpanded
                           ELSE [smExpanded EXCEPT ![path] = @ + 1]
          /\ smFetched' = IF Len(smStack) = 1 THEN Append(smFetched, path) ELSE smFetched
    /\ UNCHANGED <<smSite, smRobots>>
    /\ UNCHANGED <<pageVars, crawlVars, scoreVars, frontierVars, normalizeVars, summaryVars,
                   laterVars>>

\* the innermost call, on a sitemap index, calls analyzeSitemap on its
\* next child
SmCallChild ==
    /\ smPc = "running"
    /\ Len(smStack) < MaxDepth
    /\ LET top == smStack[Len(smStack)]
       IN /\ top.phase = "children"
          /\ smStack' = Append(smStack, Frame(top.children[top.ki], ""))
    /\ UNCHANGED <<smPc, smSite, smRobots, smResult, smExpanded, smFetched>>
    /\ UNCHANGED <<pageVars, crawlVars, scoreVars, frontierVars, normalizeVars, summaryVars,
                   laterVars>>

SitemapNext == SmFetch \/ SmCallChild

SpecSitemap == SitemapInit /\ [][SitemapNext]_vars

(***************************************************************************)
(* The summary specification: step 3 of the POST handler on every list of  *)
(* page results that starts with a successful main page.                   *)
(***************************************************************************)
\* largest number of pages of a report
MaxPages == 4

\* the analyses of the pages of a report: every analyzer at 100, or the
\* analyzers of low at 30
LowAnalysis(low) ==
    [throwing |-> {}, scores |-> [a \in Analyzers |-> IF a \in low THEN 30 ELSE 100],
     sitemapUrls |-> <<>>, internalUrls |-> <<>>]

\* the results of successful pages: scores 100, 99 and 90
SuccessResults ==
    {RunAnalyzers(PageUrl, Analyzers, LowAnalysis(low)) : low \in {{}, {"links"}, {"title"}}}

\* the result of a page whose fetch timed out
FailedResults == {AnalyzeUrlCatch(PageUrl, "timeout")}

SummaryInit ==
    /\ suPc = "collected"
    /\ \E main \in SuccessResults :
        \E rest \in SeqsUpTo(SuccessResults \cup FailedResults, MaxPages - 1) :
            suResults = <<main>> \o rest
    /\ suResponse = NoResponse
    /\ PageOff /\ CrawlOff /\ ScoreOff /\ FrontierOff /\ NormalizeOff /\ SitemapOff /\ LaterOff

\* steps 3 and 4 of the handler: the summary and the response
SuRespond ==
    /\ suPc = "collected"
    /\ suResponse' = ReportResponse(suResults)
    /\ suPc' = "responded"
    /\ UNCHANGED suResults
    /\ UNCHANGED <<pageVars, crawlVars, scoreVars, frontierVars, normalizeVars, sitemapVars,
                   laterVars>>

SummaryNext == SuRespond

SpecSummary == SummaryInit /\ [][SummaryNext]_vars

(***************************************************************************)
(* The registry specification: registerAnalyzer and unregisterAnalyzer on  *)
(* a constructed orchestrator, then the analyzers of one page and          *)
(* combineAnalysisResults.                                                 *)
(***************************************************************************)
RegistryInit ==
    /\ rgPc = "ready"
    /\ rgAnalyzers = Analyzers
    /\ rgScores = [n \in Analyzers \cup CustomAnalyzers |-> 0]
    /\ rgOverall = NoScore
    /\ PageOff /\ CrawlOff /\ ScoreOff /\ FrontierOff /\ NormalizeOff /\ SitemapOff /\ SummaryOff
    /\ RetryOff /\ LimiterOff /\ FactoryOff

\* registerAnalyzer(name, analyzer)
RgRegister(name) ==
    /\ rgPc = "ready"
    /\ rgAnalyzers' = rgAnalyzers \cup {name}
    /\ UNCHANGED <<rgPc, rgScores, rgOverall>>
    /\ UNCHANGED <<pageVars, crawlVars, scoreVars, frontierVars, normalizeVars, sitemapVars,
                   summaryVars, retryVars, limiterVars,
                   factoryVars>>

\* unregisterAnalyzer(name)
RgUnregister(name) ==
    /\ rgPc = "ready"
    /\ rgAnalyzers' = rgAnalyzers \ {name}
    /\ UNCHANGED <<rgPc, rgScores, rgOverall>>
    /\ UNCHANGED <<pageVars, crawlVars, scoreVars, frontierVars, normalizeVars, sitemapVars,
                   summaryVars, retryVars, limiterVars,
                   factoryVars>>

\* the analyzers of the registry run on a page and their results are
\* combined: every default analyzer returns builtin, a custom one its own
\* score
RgCombine(builtin, custom) ==
    LET scores == [n \in Analyzers \cup CustomAnalyzers |->
                      IF n \in Analyzers THEN builtin ELSE custom[n]]
        a == [throwing |-> {}, scores |-> scores, sitemapUrls |-> <<>>, internalUrls |-> <<>>]
    IN /\ rgPc = "ready"
       /\ rgScores' = scores
       /\ rgOverall' = OverallScore(AnalysisResults(rgAnalyzers, a))
       /\ rgPc' = "combined"
       /\ UNCHANGED rgAnalyzers
       /\ UNCHANGED <<pageVars, crawlVars, scoreVars, frontierVars, normalizeVars, sitemapVars,
                      summaryVars, retryVars, limiterVars,
                   factoryVars>>

RegistryNext ==
    \/ \E name \in Analyzers \cup CustomAnalyzers : RgRegister(name)
    \/ \E name \in Analyzers \cup CustomAnalyzers : RgUnregister(name)
    \/ \E builtin \in ScoreSet : \E custom \in [CustomAnalyzers -> ScoreSet] :
          RgCombine(builtin, custom)

SpecRegistry == RegistryInit /\ [][RegistryNext]_vars

(***************************************************************************)
(* The retry specification: one call of ErrorHandler.handleAsync on an     *)
(* operation that returns or throws at every invocation.                   *)
(***************************************************************************)
\* largest value of options.retries
MaxRetries == 2

\* the kinds of error an operation throws, by what detectErrorType finds
ErrorKinds == {"timeout", "network", "ratelimit", "permission", "other"}

\* what one invocation of the operation settles to
OperationOutcomes ==
    {[kind |-> "return", value |-> "value", error |-> "none"]}
    \cup {[kind |-> "throw", value |-> "none", error |-> e] : e \in ErrorKinds}

RetryInit ==
    /\ haPc = "running"
    /\ haRetries \in 0..MaxRetries
    /\ haFallback \in BOOLEAN
    /\ haAttempt = 0
    /\ haCalls = 0
    /\ haErrors = <<>>
    /\ PageOff /\ CrawlOff /\ ScoreOff /\ FrontierOff /\ NormalizeOff /\ SitemapOff /\ SummaryOff
    /\ RegistryOff /\ LimiterOff /\ FactoryOff

\* one turn of the loop: operation() is invoked and settles to r; after the
\* loop the fallback is used for a recoverable error, else the error thrown
HaAttempt(r) ==
    /\ haPc = "running"
    /\ haCalls' = haCalls + 1
    /\ haErrors' = IF r.kind = "throw" THEN Append(haErrors, r.error) ELSE haErrors
    /\ LET h == handleAsync(r, haAttempt, haRetries)
       IN /\ haPc' = IF h.state = "fulfilled" THEN "fulfilled"
                     ELSE IF h.state = "retry" THEN "running"
                     ELSE IF haFallback /\ isRecoverable(r.error) THEN "fallback"
                     ELSE "rejected"
          /\ haAttempt' = IF h.state = "retry" THEN haAttempt + 1 ELSE haAttempt
    /\ UNCHANGED <<haRetries, haFallback>>
    /\ UNCHANGED <<pageVars, crawlVars, scoreVars, frontierVars, normalizeVars, sitemapVars,
                   summaryVars, registryVars, limiterVars,
                   factoryVars>>

RetryNext == \E r \in OperationOutcomes : HaAttempt(r)

SpecRetry == RetryInit /\ [][RetryNext]_vars

(***************************************************************************)
(* The limiter specification: calls of RateLimiter.isAllowed for two keys, *)
(* the periodic cleanup and the clock.  Time is counted in ticks; a second *)
(* has SecondMs ticks.                                                     *)
(***************************************************************************)
\* config.windowMs, scaled (the presets use 60 * 1000)
windowMs == 3

\* config.maxRequests, scaled (the presets use 10, 60 and 200)
maxRequests == 2

\* the 1000 ms of a second, scaled
SecondMs == 2

\* the last value of the clock
MaxTime == 5

\* Math.ceil(num / den) for num > 0
MathCeil(num, den) == (num + den - 1) \div den

RECURSIVE MathMin(_)
\* Math.min(...requests) of a list that is not empty
MathMin(requests) ==
    IF Len(requests) = 1 THEN requests[1]
    ELSE Min(requests[1], MathMin(Tail(requests)))

\* requests.filter(timestamp => timestamp > windowStart)
InWindow(requests, now) ==
    LET windowStart == now - windowMs
    IN SelectSeq(requests, LAMBDA timestamp : timestamp > windowStart)

\* retryAfter rounded down
retryAfterFloor(requests, now) == (MathMin(requests) + windowMs - now) \div SecondMs

\* Math.ceil((oldestRequest + this.config.windowMs - now) / 1000)
retryAfter(requests, now) == MathCeil(MathMin(requests) + windowMs - now, SecondMs)

\* isAllowed that lets a request pass when the window is full
isAllowedOverLimit(entry, now) ==
    LET requests == InWindow(entry.requests, now)
    IN IF Len(requests) > maxRequests
       THEN [entry |-> [present |-> TRUE, requests |-> requests, blocked |-> TRUE],
             allowed |-> FALSE, retryAfter |-> retryAfter(requests, now)]
       ELSE [entry |-> [present |-> TRUE, requests |-> Append(requests, now),
                        blocked |-> FALSE],
             allowed |-> TRUE, retryAfter |-> 0]

\* isAllowed on the entry of the key (NoEntry when the store has none):
\* the entry it leaves in the store and the value it returns
isAllowed(entry, now) ==
    LET requests == InWindow(entry.requests, now)
    IN IF entry.blocked /\ Len(requests) >= maxRequests
       THEN [entry |-> [present |-> TRUE, requests |-> requests, blocked |-> entry.blocked],
             allowed |-> FALSE, retryAfter |-> retryAfter(requests, now)]
       ELSE IF Len(requests) >= maxRequests
       THEN [entry |-> [present |-> TRUE, requests |-> requests, blocked |-> TRUE],
             allowed |-> FALSE, retryAfter |-> retryAfter(requests, now)]
       ELSE [entry |-> [present |-> TRUE, requests |-> Append(requests, now),
                        blocked |-> FALSE],
             allowed |-> TRUE, retryAfter |-> 0]

\* cleanup on one entry: expired timestamps are dropped and an entry left
\* without timestamps is deleted
cleanup(entry, now) ==
    LET requests == InWindow(entry.requests, now)
    IN IF ~entry.present \/ Len(requests) = 0 THEN NoEntry
       ELSE [entry EXCEPT !.requests = requests]

LimiterInit ==
    /\ rlPc = "on"
    /\ rlNow = 0
    /\ rlStore = [k \in Keys |-> NoEntry]
    /\ rlAllowed = [k \in Keys |-> <<>>]
    /\ rlDeadline = [k \in Keys |-> {}]
    /\ rlLast = NoCall
    /\ PageOff /\ CrawlOff /\ ScoreOff /\ FrontierOff /\ NormalizeOff /\ SitemapOff /\ SummaryOff
    /\ RegistryOff /\ RetryOff /\ FactoryOff

\* a request of key arrives and isAllowed runs (it has no await, so it runs
\* to its end)
RlIsAllowed(key) ==
    /\ rlPc = "on"
    /\ LET r == isAllowed(rlStore[key], rlNow)
           deadline == rlNow + SecondMs * r.retryAfter
       IN /\ rlStore' = [rlStore EXCEPT ![key] = r.entry]
          /\ rlAllowed' = IF r.allowed THEN [rlAllowed EXCEPT ![key] = Append(@, rlNow)]
                          ELSE rlAllowed
          /\ rlDeadline' = [rlDeadline EXCEPT ![key] =
                                IF r.allowed THEN {} ELSE @ \cup {deadline}]
          /\ rlLast' = [key |-> key, at |-> rlNow, allowed |-> r.allowed,
                        retryAfter |-> r.retryAfter]
    /\ UNCHANGED <<rlPc, rlNow>>
    /\ UNCHANGED <<pageVars, crawlVars, scoreVars, frontierVars, normalizeVars, sitemapVars,
                   summaryVars, registryVars, retryVars, factoryVars>>

\* the interval timer fires and cleanup runs over the store
RlCleanup ==
    /\ rlPc = "on"
    /\ rlStore' = [k \in Keys |-> cleanup(rlStore[k], rlNow)]
    /\ UNCHANGED <<rlPc, rlNow, rlAllowed, rlDeadline, rlLast>>
    /\ UNCHANGED <<pageVars, crawlVars, scoreVars, frontierVars, normalizeVars, sitemapVars,
                   summaryVars, registryVars, retryVars, factoryVars>>

\* the clock advances
RlTick ==
    /\ rlPc = "on"
    /\ rlNow < MaxTime
    /\ rlNow' = rlNow + 1
    /\ UNCHANGED <<rlPc, rlStore, rlAllowed, rlDeadline, rlLast>>
    /\ UNCHANGED <<pageVars, crawlVars, scoreVars, frontierVars, normalizeVars, sitemapVars,
                   summaryVars, registryVars, retryVars, factoryVars>>

LimiterNext == (\E key \in Keys : RlIsAllowed(key)) \/ RlCleanup \/ RlTick

SpecLimiter == LimiterInit /\ [][LimiterNext]_vars

(***************************************************************************)
(* The factory specification: concurrent calls of                          *)
(* AnalyzerFactory.getAnalyzer for one type.  An action is one run of code *)
(* between two suspension points.  The promise of the k-th call of         *)
(* loadAnalyzer is k, and so is the instance it creates.                   *)
(***************************************************************************)
\* the number of callers of getAnalyzer
MaxCallers == 3

\* the most calls of the loader the model follows
MaxLoads == 2

\* getAnalyzer that does not look at the loads in progress
getAnalyzerNoInFlightCheck(cache, loading) ==
    IF cache # 0 THEN "cached" ELSE "load"

\* the branch getAnalyzer takes before its first await
getAnalyzer(cache, loading) ==
    IF cache # 0 THEN "cached"
    ELSE IF loading # 0 THEN "loading"
    ELSE "load"

\* a caller that has not called yet
IdleCaller == [pc |-> "idle", promise |-> 0, result |-> 0]

FactoryInit ==
    /\ faPc = "on"
    /\ faCache = 0
    /\ faLoading = 0
    /\ faPromises = [k \in 1..MaxLoads |-> "none"]
    /\ faLoads = 0
    /\ faCallers = [c \in 1..MaxCallers |-> IdleCaller]
    /\ PageOff /\ CrawlOff /\ ScoreOff /\ FrontierOff /\ NormalizeOff /\ SitemapOff /\ SummaryOff
    /\ RegistryOff /\ RetryOff /\ LimiterOff

\* caller c calls getAnalyzer(type): the code up to the return or the await
FaCall(c) ==
    /\ faPc = "on"
    /\ faCallers[c].pc = "idle"
    /\ LET branch == getAnalyzer(faCache, faLoading)
       IN \/ /\ branch = "cached"
             /\ faCallers' = [faCallers EXCEPT ![c] =
                                  [pc |-> "done", promise |-> 0, result |-> faCache]]
             /\ UNCHANGED <<faLoading, faPromises, faLoads>>
          \/ /\ branch = "loading"
             /\ faCallers' = [faCallers EXCEPT ![c] =
                                  [pc |-> "adopting", promise |-> faLoading, result |-> 0]]
             /\ UNCHANGED <<faLoading, faPromises, faLoads>>
          \/ /\ branch = "load"
             /\ faLoads < MaxLoads
             /\ faLoads' = faLoads + 1
             /\ faPromises' = [faPromises EXCEPT ![faLoads + 1] = "pending"]
             /\ faLoading' = faLoads + 1
             /\ faCallers' = [faCallers EXCEPT ![c] =
                                  [pc |-> "awaiting", promise |-> faLoads + 1, result |-> 0]]
    /\ UNCHANGED <<faPc, faCache>>
    /\ UNCHANGED <<pageVars, crawlVars, scoreVars, frontierVars, normalizeVars, sitemapVars,
                   summaryVars, registryVars, retryVars, limiterVars>>

\* the import of a call of loadAnalyzer settles: the promise is fulfilled
\* with a new instance or rejected
FaLoadSettles(k, ok) ==
    /\ faPc = "on"
    /\ faPromises[k] = "pending"
    /\ faPromises' = [faPromises EXCEPT ![k] = IF ok THEN "fulfilled" ELSE "rejected"]
    /\ UNCHANGED <<faPc, faCache, faLoading, faLoads, faCallers>>
    /\ UNCHANGED <<pageVars, crawlVars, scoreVars, frontierVars, normalizeVars, sitemapVars,
                   summaryVars, registryVars, retryVars, limiterVars>>

\* the caller that started the load resumes after its await: the try
\* block to its return, or the catch block
FaResume(c) ==
    /\ faPc = "on"
    /\ faCallers[c].pc = "awaiting"
    /\ faPromises[faCallers[c].promise] \in {"fulfilled", "rejected"}
    /\ IF faPromises[faCallers[c].promise] = "fulfilled"
       THEN /\ faCache' = faCallers[c].promise
            /\ faCallers' = [faCallers EXCEPT ![c].pc = "done", ![c].result = faCallers[c].promise]
       ELSE /\ faCache' = faCache
            /\ faCallers' = [faCallers EXCEPT ![c].pc = "failed"]
    /\ faLoading' = 0
    /\ UNCHANGED <<faPc, faPromises, faLoads>>
    /\ UNCHANGED <<pageVars, crawlVars, scoreVars, frontierVars, normalizeVars, sitemapVars,
                   summaryVars, registryVars, retryVars, limiterVars>>

\* a caller that returned the promise of a load in progress settles with it
FaAdopt(c) ==
    /\ faPc = "on"
    /\ faCallers[c].pc = "adopting"
    /\ faPromises[faCallers[c].promise] \in {"fulfilled", "rejected"}
    /\ faCallers' = IF faPromises[faCallers[c].promise] = "fulfilled"
                    THEN [faCallers EXCEPT ![c].pc = "done", ![c].result = faCallers[c].promise]
                    ELSE [faCallers EXCEPT ![c].pc = "failed"]
    /\ UNCHANGED <<faPc, faCache, faLoading, faPromises, faLoads>>
    /\ UNCHANGED <<pageVars, crawlVars, scoreVars, frontierVars, normalizeVars, sitemapVars,
                   summaryVars, registryVars, retryVars, limiterVars>>

FactoryNext ==
    \/ \E c \in 1..MaxCallers : FaCall(c)
    \/ \E k \in 1..MaxLoads : \E ok \in BOOLEAN : FaLoadSettles(k, ok)
    \/ \E c \in 1..MaxCallers : FaResume(c)
    \/ \E c \in 1..MaxCallers : FaAdopt(c)

SpecFactory == FactoryInit /\ [][FactoryNext]_vars

(***************************************************************************)
(* Claims about the POST handler, checked under Spec.                      *)
(***************************************************************************)
Settled(b, j) == pst[b][j] \in {"fulfilled", "rejected"}

\* the pages of the frontier, by batch and place
Pages == UNION {{<<b, j>> : j \in DOMAIN pst[b]} : b \in DOMAIN pst}

\* C1: no page analysis of batch k+1 is started before every page analysis
\* of batch k has settled
C1_BatchesSequential ==
    \A p \in Pages :
        (p[1] > 1 /\ pst[p[1]][p[2]] # "idle")
            => \A i \in DOMAIN pst[p[1] - 1] : Settled(p[1] - 1, i)

\* a page of the second batch is running after a page of the first failed
C1_Witness ==
    /\ cur = 2
    /\ \E j \in DOMAIN pst[2] : pst[2][j] = "running"
    /\ \E i \in DOMAIN pst[1] : pst[1][i] = "fulfilled" /\ pval[1][i].status = "failed"

\* C2: a frontier of n URLs is cut into ceil(n/5) batches, all of size 5
\* except possibly the last (n mod 5 when non-zero), and at most 5 frontier
\* page analyses are in flight
C2_BatchShape ==
    LET n == Len(urlsToAnalyze)
    IN /\ Len(batches) = (n + 4) \div 5
       /\ \A b \in DOMAIN batches :
            Len(batches[b]) = IF b < Len(batches) \/ n % 5 = 0 THEN 5 ELSE n % 5
       /\ Flatten(batches) = urlsToAnalyze
       /\ InFlight <= 5

\* a frontier of more than 5 URLs with a full batch in flight
C2_Witness == Len(urlsToAnalyze) > 5 /\ Len(urlsToAnalyze) % 5 # 0 /\ InFlight = 5

\* C3: the report lists the main page and then one entry per frontier URL,
\* in frontier order, each with that URL and a status, whichever analyses
\* failed; every frontier URL has been analyzed
C3_OneEntryPerUrl ==
    response.kind = "report" =>
        /\ Len(response.pages) = 1 + Len(urlsToAnalyze)
        /\ response.pages[1] = mainPageResult
        /\ \A i \in DOMAIN urlsToAnalyze :
            /\ response.pages[i + 1].url = urlsToAnalyze[i]
            /\ response.pages[i + 1].status \in {"success", "failed"}
        /\ \A p \in Pages : pcalls[p[1]][p[2]] >= 1 /\ Settled(p[1], p[2])

\* a report of two batches where a page of the first batch failed and a
\* page of the second succeeded
C3_Witness ==
    /\ response.kind = "report"
    /\ Len(batches) = 2
    /\ \E i \in DOMAIN batches[1] : response.pages[i + 1].status = "failed"
    /\ \E i \in DOMAIN batches[2] : response.pages[i + 1 + Len(batches[1])].status = "success"

\* the main page analysis has produced its result
MainAnalyzed == phase = "responded" /\ mainPageResult # NoResult

C5_FailedFetchRetried ==
    \A p \in Pages :
        (Settled(p[1], p[2]) /\ pfirst[p[1]][p[2]] \in {"timeout", "network"})
            => pcalls[p[1]][p[2]] >= 2

(***************************************************************************)
(* Claims about analyzeUrl, checked under SpecPage.                        *)
(***************************************************************************)
\* every analyzer has settled and exactly one of them threw
OneThrew == pgPc = "done" /\ Cardinality(pgAn.throwing) = 1

Thrower == CHOOSE t \in pgAn.throwing : TRUE

\* the issues of the page that name the failure of analyzer t
FailureIssuesOf(t) ==
    SelectSeq(pgResult.issues,
              LAMBDA x : x.type = "error" /\ x.priority = "high"
                         /\ x.message = FailureIssue(t).message)

\* C6 as claimed: when one analyzer throws the page is still a success, the
\* data and issues of the other analyzers are what they returned, and the
\* page's issues hold exactly one error/high issue naming the failed analyzer
C6_OneFailureIssue ==
    OneThrew =>
        /\ pgResult.status = "success"
        /\ \A n \in Analyzers \ pgAn.throwing :
            pgResult.data[n] = AnalyzerReturn(n, pgAn.scores[n], <<>>).data
        /\ Len(FailureIssuesOf(Thrower)) = 1

RECURSIVE WeightOf(_, _)
\* the weight of analyzer name, looked up from entry i of the table on
WeightOf(name, i) ==
    IF i > Len(weights) THEN 0
    ELSE IF weights[i][1] = name THEN weights[i][2] ELSE WeightOf(name, i + 1)

RECURSIVE SumWeights(_)
SumWeights(names) ==
    IF names = {} THEN 0
    ELSE LET n == CHOOSE x \in names : TRUE
         IN WeightOf(n, 1) + SumWeights(names \ {n})

RECURSIVE SumWeighted(_, _)
\* the sum of score times weight over names
SumWeighted(scores, names) ==
    IF names = {} THEN 0
    ELSE LET n == CHOOSE x \in names : TRUE
         IN scores[n] * WeightOf(n, 1) + SumWeighted(scores, names \ {n})

BadResponse ==
    /\ pgFetch.kind = "response"
    /\ \/ ~(pgFetch.status \in 200..299)
       \/ pgFetch.body.len = 0 \/ pgFetch.body.blank
       \/ pgFetch.body.len > PAGE_SIZE_LIMIT

\* C9: a non-2xx response, an empty body or a body over the size limit gives
\* a failed result with the error code of its case, and no analyzer is invoked
C9_BadResponseFails ==
    (pgPc = "done" /\ BadResponse) =>
        /\ pgResult.status = "failed"
        /\ pgInvoked = {}
        /\ pgResult.errorCode =
             IF ~(pgFetch.status \in 200..299)
             THEN (CASE pgFetch.status = 404 -> "HTTP_404"
                     [] pgFetch.status = 403 -> "HTTP_403"
                     [] pgFetch.status = 500 -> "HTTP_500"
                     [] pgFetch.status = 502 -> "HTTP_502"
                     [] pgFetch.status = 503 -> "HTTP_503"
                     [] OTHER -> "FETCH_FAILED")
             ELSE IF pgFetch.body.len = 0 \/ pgFetch.body.blank THEN "EMPTY_RESPONSE"
             ELSE "PAGE_TOO_LARGE"

\* a 200 response whose body is over the size limit has been rejected
C9_Witness ==
    /\ pgPc = "done"
    /\ pgFetch.kind = "response" /\ pgFetch.status = 200
    /\ ~pgFetch.body.blank /\ pgFetch.body.len > PAGE_SIZE_LIMIT
    /\ pgResult.errorCode = "PAGE_TOO_LARGE"

(***************************************************************************)
(* Claims about the overall score, checked under SpecScore.                *)
(***************************************************************************)
\* C8 as claimed: the overall score is the exact weighted mean of the
\* scores, rounded once to the nearest integer
C8_ExactWeightedMean ==
    scPc = "combined" =>
        scOverall = MathRound(SumWeighted(scScores, Analyzers), SumWeights(Analyzers))

(***************************************************************************)
(* Claims about the frontier, checked under SpecFrontier.                  *)
(***************************************************************************)
\* the normalized key of a URL: default port stripped, host lower-cased,
\* trailing slash dropped
NormalizedKey(u) == DeduplicationKey(Href(u))

\* C10 as claimed: no two entries of the frontier have the same normalized
\* key
C10_NoDuplicateKeys ==
    frPc = "built" =>
        \A i, j \in DOMAIN frFrontier :
            i # j => NormalizedKey(frFrontier[i]) # NormalizedKey(frFrontier[j])

\* the sitemap entries the handler takes: every <loc> but the main URL
SitemapDerived == {u \in Range(frSitemap) : u # MainUrl}

\* C11: the frontier has at most the configured maximum of entries, every
\* entry that comes from the sitemap precedes every entry that was only
\* discovered as a link, and a discovered-only entry is present only if the
\* sitemap entries did not fill the cap
C11_CapAndPriority ==
    frPc = "built" =>
        /\ Len(frFrontier) <= frCap
        /\ \A i, j \in DOMAIN frFrontier :
            (frFrontier[i] \notin SitemapDerived /\ frFrontier[j] \in SitemapDerived) => j < i
        /\ (\E i \in DOMAIN frFrontier : frFrontier[i] \notin SitemapDerived)
            => Cardinality(SitemapDerived) < frCap
        /\ Range(frFrontier) \subseteq SitemapDerived \cup Range(frInternal)

\* the cap cut the frontier: a sitemap entry and a discovered link are in
\* it, another discovered link is not
C11_Witness ==
    /\ frPc = "built"
    /\ Len(frFrontier) = frCap
    /\ \E i \in DOMAIN frFrontier : frFrontier[i] \in SitemapDerived
    /\ \E i \in DOMAIN frFrontier : frFrontier[i] \notin SitemapDerived
    /\ \E u \in Range(frInternal) : u \notin Range(frFrontier)

\* C12 as claimed: no URL that is the main page up to a trailing slash is
\* in the main page's link set or in the frontier
C12_MainPageExcluded ==
    frPc = "built" =>
        \A u \in Range(frInternal) \cup Range(frFrontier) :
            NormalizedKey(u) # NormalizedKey(MainUrl)

\* C13 as claimed: every URL of internalUrls has the host of the main page
C13_InternalSameHost ==
    frPc \in {"linked", "built"} =>
        \A u \in Range(frInternal) : Hostname(u) = Hostname(MainUrl)

(***************************************************************************)
(* Claims about the deduplication key, checked under SpecNormalize.        *)
(***************************************************************************)
\* two URL strings that differ at most by a trailing slash on the path or
\* by an explicit default port of their scheme
DifferBySlashOrDefaultPort(u1, u2) ==
    /\ u1.scheme = u2.scheme /\ u1.host = u2.host /\ u1.upper = u2.upper /\ u1.seg = u2.seg
    /\ \/ u1.port = u2.port
       \/ {u1.port, u2.port} = {0, IF u1.scheme = "http" THEN 80 ELSE 443}

\* C14 as claimed: two URLs that differ only by a trailing slash or by an
\* explicit default port (80 for http, 443 for https) get the same
\* deduplication key
C14_SameKey ==
    (nzPc = "keyed" /\ DifferBySlashOrDefaultPort(nzU1, nzU2)) => nzK1 = nzK2

(***************************************************************************)
(* Claims about analyzeSitemap, checked under SpecSitemap.                 *)
(***************************************************************************)
\* the document of the first candidate of the outermost call that is served
UsedDocument ==
    LET cands == CandidatesOf(Origin, smRobots)
        served == {i \in DOMAIN cands : smSite[cands[i]] # Missing}
    IN IF served = {} THEN Missing
       ELSE smSite[cands[CHOOSE i \in served : \A k \in served : i <= k]]

\* the outermost call used a sitemap index of which exactly one child is
\* not served and every other child is a urlset
OneChildFails ==
    /\ UsedDocument.kind = "index"
    /\ Cardinality({i \in DOMAIN UsedDocument.entries :
                        smSite[UsedDocument.entries[i]] = Missing}) = 1
    /\ \A i \in DOMAIN UsedDocument.entries :
        smSite[UsedDocument.entries[i]].kind \in {"missing", "urlset"}

\* C15 as claimed: with one failing child the index still exists with the
\* URLs of all the other children, and its issues hold no error-type issue
\* (the failed child adds a warning only)
C15_ChildFailureIsWarning ==
    (smPc = "done" /\ OneChildFails) =>
        /\ smResult.exists
        /\ smResult.urls =
             Flatten([i \in DOMAIN UsedDocument.entries |->
                        Slice(smSite[UsedDocument.entries[i]].entries, 0, maxUrls)])
        /\ \A i \in DOMAIN smResult.issues : smResult.issues[i].type # "error"

\* C16 as claimed: the urls list of the result has at most maxUrls entries
C16_UrlsTruncated == smPc = "done" => Len(smResult.urls) <= maxUrls

\* C17 as claimed: a first served candidate that is no sitemap index, no
\* urlset and no list of URLs (an empty body, an HTML page) gives
\* exists = false and accessible = false
C17_NotASitemap ==
    (/\ smPc = "done"
     /\ UsedDocument.kind = "text"
     /\ \/ UsedDocument.entries = <<>>
        \/ \E i \in DOMAIN UsedDocument.entries : ~UsedDocument.entries[i].isUrl)
        => ~smResult.exists /\ ~smResult.accessible

\* C18 as claimed: within one discovery no sitemap document is expanded
\* more than once, also when an index lists itself
C18_ExpandedOnce == \A p \in SitemapPaths : smExpanded[p] <= 1

(***************************************************************************)
(* Claims about the summary, checked under SpecSummary.                    *)
(***************************************************************************)
RECURSIVE SumScoresAt(_, _)
\* the sum of seoScore over the entries of pages at the places idx
SumScoresAt(pages, idx) ==
    IF idx = {} THEN 0
    ELSE LET i == CHOOSE x \in idx : TRUE
         IN pages[i].seoScore + SumScoresAt(pages, idx \ {i})

RECURSIVE IssuesAt(_, _, _)
\* the number of issues of a type over the entries of pages at the places idx
IssuesAt(pages, idx, type) ==
    IF idx = {} THEN 0
    ELSE LET i == CHOOSE x \in idx : TRUE
         IN Cardinality({k \in DOMAIN pages[i].issues : pages[i].issues[k].type = type})
            + IssuesAt(pages, idx \ {i}, type)

\* the places of the successful entries of the report
Successful == {i \in DOMAIN suResponse.pages : suResponse.pages[i].status = "success"}

\* C19: the summary of a report is consistent with its pages list: the
\* counts of all, successful and failed entries, the rounded mean of
\* seoScore over the successful entries (0 if none) and the issue counts by
\* type over the successful entries
C19_SummaryConsistent ==
    suPc = "responded" =>
        LET pages == suResponse.pages
            sm == suResponse.summary
        IN /\ pages = suResults
           /\ sm.totalPages = Len(pages)
           /\ sm.successfulPages = Cardinality(Successful)
           /\ sm.failedPages = sm.totalPages - sm.successfulPages
           /\ sm.avgSeoScore = IF Successful = {} THEN 0
                               ELSE MathRound(SumScoresAt(pages, Successful),
                                              Cardinality(Successful))
           /\ sm.criticalIssues = IssuesAt(pages, Successful, "error")
           /\ sm.warningIssues = IssuesAt(pages, Successful, "warning")
           /\ sm.successIssues = IssuesAt(pages, Successful, "success")

\* a report with a failed page, whose mean over the successful pages is
\* not an integer and whose pages carry errors and warnings
C19_Witness ==
    /\ suPc = "responded"
    /\ suResponse.summary.failedPages > 0
    /\ suResponse.summary.avgSeoScore * Cardinality(Successful)
         # SumScoresAt(suResponse.pages, Successful)
    /\ suResponse.summary.criticalIssues > 0

(***************************************************************************)
(* Claims about analyzeUrl never rejecting, checked under SpecPage.        *)
(***************************************************************************)
\* C20: analyzeUrl ends, for every outcome of the validation, the fetch and
\* the analyzers, with exactly one result, for the URL it was called with
\* and with status success or failed
C20_AlwaysOneResult ==
    /\ (pgPc = "done") <=> (pgResult # NoResult)
    /\ pgPc = "done" =>
        /\ pgResult.url = PageUrl
        /\ pgResult.status \in {"success", "failed"}
    /\ pgPc # "done" => ENABLED PageNext

\* the fetch threw an exception that is neither a timeout nor a network
\* failure, and the call returned a failed result for its URL
C20_Witness ==
    /\ pgPc = "done"
    /\ pgFetch.kind = "other"
    /\ pgResult.status = "failed"
    /\ pgResult.url = PageUrl

(***************************************************************************)
(* Claims about the registry, checked under SpecRegistry.                  *)
(***************************************************************************)
RECURSIVE SumOf(_, _)
\* the sum of the scores of the analyzers of names
SumOf(scores, names) ==
    IF names = {} THEN 0
    ELSE LET n == CHOOSE x \in names : TRUE
         IN scores[n] + SumOf(scores, names \ {n})

\* the names of the weight table
Weighted == {weights[i][1] : i \in DOMAIN weights}

\* C21 as claimed: when no registered analyzer has an entry in the weight
\* table, the overall score is the rounded arithmetic mean of the scores of
\* the registered analyzers, and 0 when no analyzer is registered
C21_FallbackMean ==
    (rgPc = "combined" /\ rgAnalyzers \cap Weighted = {}) =>
        rgOverall = IF rgAnalyzers = {} THEN 0
                    ELSE MathRound(SumOf(rgScores, rgAnalyzers), Cardinality(rgAnalyzers))

(***************************************************************************)
(* Claims about the issues of a page result, checked under SpecPage.       *)
(***************************************************************************)
\* the issues the analyzers of the page reported, in registration order
IssuesInRegistrationOrder ==
    Flatten([i \in DOMAIN AnalyzerOrder |-> AnalyzerOutcome(AnalyzerOrder[i], pgAn).issues])

\* C22 as claimed: the issues of a successful page result are the issues of
\* the analyzers concatenated in registration order, the order inside each
\* analyzer kept
C22_RegistrationOrder ==
    (pgPc = "done" /\ pgResult.status = "success") =>
        pgResult.issues = IssuesInRegistrationOrder

(***************************************************************************)
(* Claims about trailing slashes in the link set, checked under            *)
(* SpecFrontier.                                                           *)
(***************************************************************************)
\* the internal URLs the anchors of the main page point to
Linked == Range(CollectInternal(MainUrl, frHrefs, Len(frHrefs)))

\* C23 as claimed: when the main page links to a URL without and with the
\* trailing slash, in either order, internalUrls holds exactly one of the
\* two and it is the form without the slash
C23_NonSlashFormKept ==
    frPc \in {"linked", "built"} =>
        \A u \in Linked :
            (u.seg # "" /\ ~u.slash /\ [u EXCEPT !.slash = TRUE] \in Linked) =>
                /\ Cardinality({i \in DOMAIN frInternal :
                                  frInternal[i] \in {u, [u EXCEPT !.slash = TRUE]}}) = 1
                /\ u \in Range(frInternal)

(***************************************************************************)
(* Claims about the order of the candidates, checked under SpecSitemap.    *)
(***************************************************************************)
\* the candidates of a site origin in the order of the claim
OrderOfCandidates ==
    (IF smRobots = "" THEN <<>> ELSE <<smRobots>>)
    \o <<"/sitemap.xml", "/sitemap.xml.gz", "/sitemap_index.xml", "/sitemap_index.xml.gz",
         "/sitemap.txt">>

\* the candidates that are served
Served == {k \in DOMAIN OrderOfCandidates : smSite[OrderOfCandidates[k]] # Missing}

\* the place of the first candidate that is served
FirstServed == CHOOSE k \in Served : \A j \in Served : k <= j

\* C24: the outermost call fetches the candidates in the order robots.txt
\* hint, /sitemap.xml, /sitemap.xml.gz, /sitemap_index.xml,
\* /sitemap_index.xml.gz, /sitemap.txt; every fetch but the last failed, no
\* candidate is fetched after the first that is served, and the result is
\* built from that document
C24_FirstServedCandidate ==
    /\ Len(smFetched) <= Len(OrderOfCandidates)
    /\ smFetched = SubSeq(OrderOfCandidates, 1, Len(smFetched))
    /\ \A k \in DOMAIN smFetched : k < Len(smFetched) => smSite[smFetched[k]] = Missing
    /\ smPc = "done" =>
        IF Served = {}
        THEN smFetched = OrderOfCandidates /\ smResult = SitemapNotFound
        ELSE LET doc == smSite[OrderOfCandidates[FirstServed]]
             IN /\ Len(smFetched) = FirstServed
                /\ smResult.exists
                /\ doc.kind = "urlset" => smResult.urls = Slice(doc.entries, 0, maxUrls)
                /\ doc.kind = "text" => smResult.urls = Slice(doc.entries, 0, maxUrls)
                /\ doc.kind = "index" =>
                       smResult.childSitemaps = Slice(doc.entries, 0, maxChildSitemaps)

\* the hint of robots.txt and /sitemap.xml failed, /sitemap_index.xml was
\* the first candidate served and the call ended without fetching
\* /sitemap.txt, which is served too
C24_Witness ==
    /\ smPc = "done"
    /\ smRobots # ""
    /\ Len(smFetched) = 4
    /\ smSite["/sitemap.txt"] # Missing
    /\ smResult.childSitemaps # <<>>

(***************************************************************************)
(* Claims about handleAsync, checked under SpecRetry.                      *)
(***************************************************************************)
\* C25: handleAsync invokes the operation at most retries + 1 times; it
\* returns the first successful result and stops at the first error that is
\* not retryable, in both cases without a further invocation: the operation
\* ran exactly once per attempt made
C25_BoundedRetry ==
    /\ haCalls <= haRetries + 1
    /\ haPc = "running" => haCalls = haAttempt /\ Len(haErrors) = haCalls
    /\ haPc \in {"fulfilled", "fallback", "rejected"} =>
        /\ haCalls = haAttempt + 1
        /\ ~ENABLED RetryNext
    /\ haPc = "fulfilled" => Len(haErrors) = haCalls - 1
    /\ haPc \in {"fallback", "rejected"} => Len(haErrors) = haCalls
    /\ \A k \in DOMAIN haErrors :
        ~isRetryable(haErrors[k]) => k = Len(haErrors) /\ haPc \in {"fallback", "rejected"}
    /\ haPc = "fallback" => haFallback

\* with retries = 2 the first attempt timed out and the second failed with
\* an error that is not retryable: the error was thrown after two
\* invocations
C25_Witness ==
    /\ haPc = "rejected"
    /\ haRetries = 2
    /\ haCalls = 2
    /\ haErrors = <<"timeout", "permission">>

(***************************************************************************)
(* Claims about the rate limiter, checked under SpecLimiter.               *)
(***************************************************************************)
\* the number of calls of key that were allowed in the window (t - windowMs, t]
AllowedIn(key, t) ==
    Cardinality({i \in DOMAIN rlAllowed[key] :
                    rlAllowed[key][i] > t - windowMs /\ rlAllowed[key][i] <= t})

\* C26: for every key and every time t, at most maxRequests calls of
\* isAllowed for the key were allowed with a timestamp in (t - windowMs, t]
C26_WindowLimit ==
    \A key \in Keys : \A t \in 0..(MaxTime + windowMs) : AllowedIn(key, t) <= maxRequests

\* a key filled its window and was allowed again once its oldest request
\* had left the window, and the cleanup deleted the entry of the other key
C26_Witness ==
    /\ Len(rlAllowed["a"]) > maxRequests
    /\ rlAllowed["b"] # <<>> /\ ~rlStore["b"].present
    /\ \E t \in 0..MaxTime : AllowedIn("a", t) = maxRequests

\* C27: a denial names retryAfter >= 1; no call is denied at or after the
\* time an earlier denial of the key named, unless a call of the key was
\* allowed in between; and the timestamps of the store are those of allowed
\* calls only
C27_RetryAfterHonoured ==
    /\ ~rlLast.allowed => rlLast.retryAfter >= 1
    /\ \A key \in Keys :
        /\ (rlLast.key = key /\ ~rlLast.allowed) =>
              \A deadline \in rlDeadline[key] : rlLast.at < deadline
        /\ Range(rlStore[key].requests) \subseteq Range(rlAllowed[key])
        /\ Len(rlStore[key].requests) <= Len(rlAllowed[key])

\* a key was denied twice and the second denial, made before the time the
\* first one named, names a later time
C27_Witness ==
    /\ rlLast.key = "a" /\ ~rlLast.allowed
    /\ \E deadline \in rlDeadline["a"] :
          deadline < rlLast.at + SecondMs * rlLast.retryAfter

(***************************************************************************)
(* Claims about the analyzer factory, checked under SpecFactory.           *)
(***************************************************************************)
\* the calls of the loader that have not settled
LoadsInProgress == {k \in DOMAIN faPromises : faPromises[k] = "pending"}

\* C28: between two suspension points of any interleaving of getAnalyzer
\* calls the type is never both cached and in the loading map, at most one
\* load is in progress and none while the type is cached, all callers that
\* resolved hold the same instance, and no step invokes the loader while the
\* type is cached or a load is in the loading map
C28_SingleLoad ==
    /\ [](/\ ~(faCache # 0 /\ faLoading # 0)
          /\ Cardinality(LoadsInProgress) <= 1
          /\ faCache # 0 => LoadsInProgress = {}
          /\ \A c, d \in DOMAIN faCallers :
                (faCallers[c].pc = "done" /\ faCallers[d].pc = "done") =>
                    faCallers[c].result = faCallers[d].result)
    /\ [][(faCache # 0 \/ faLoading # 0) => faLoads' = faLoads]_vars

\* a second caller arrived while the load was in progress and a third
\* after the instance was cached: all three resolved to the instance of the
\* one load
C28_Witness ==
    /\ faLoads = 1
    /\ \A c \in DOMAIN faCallers : faCallers[c].pc = "done" /\ faCallers[c].result = 1
    /\ \E c \in DOMAIN faCallers : faCallers[c].promise = 0

(***************************************************************************)
(* Claims about the responses of the POST handler, checked under Spec.     *)
(***************************************************************************)
\* C29 as claimed: every response the handler returns was produced by the
\* security-headers layer
C29_ResponseSecured == phase = "responded" => response.secured

\* ---------------------------------------------------------------------------
\* C30
\* ---------------------------------------------------------------------------

\* the frontier pages whose analysis, and with it the fetch, was started
FetchedPages ==
    {batches[b][j] : <<b, j>> \in
        UNION {{<<b, j>> : j \in {i \in DOMAIN pst[b] : pst[b][i] # "idle"}} :
                  b \in DOMAIN pst}}

\* C30 as claimed: the root URL and every frontier URL whose page is fetched
\* during a crawl passes URLValidator.isValidUrl
C30_FetchedUrlsValidated ==
    /\ url # NoUrl => isValidUrl(url)
    /\ \A u \in FetchedPages : isValidUrl(u)

====
